---- MODULE Spec2Model ----
(***************************************************************************)
(* Rental-management backend: the entity store (leases, payments,          *)
(* receipts, tenants, complaints, maintenance requests), the request       *)
(* handlers of the lease and payment controllers split at their awaits,    *)
(* the scheduled overdue sweep and the role guards of the routes.          *)
(***************************************************************************)
EXTENDS Integers, Sequences, FiniteSets, TLC

(* ------------------------------ bounds --------------------------------- *)
MaxPayments == 1
MaxReceipts == 2
MaxNow == 2
MaxLeases == 2
MaxSummed == 8

(* --------------------------- fixed directory --------------------------- *)
\* JavaScript's null / undefined, and the marker of a thrown TypeError
Null == "null"
Undefined == "undefined"
TypeError == "TypeError"

Slots == {1, 2}

\* prisma/schema.prisma enum UserRole
Roles == {"SUPER_ADMIN", "OWNER", "MANAGER", "TENANT"}

Owners == {"o1", "o2"}
Properties == {"p1", "p2"}
Tenants == {"t1", "t2"}

\* Property.ownerId
PropertyOwner(p) == IF p = "p1" THEN "o1" ELSE "o2"

\* Tenant.propertyId
TenantProperty(t) == IF t = "t1" THEN "p1" ELSE "p2"

\* req.user as authenticate builds it: the User row with its tenant, owner and
\* manager relations (null when the user has no such profile)
MkUser(role, owner, manager, tenant) ==
    [role |-> role, owner |-> owner, manager |-> manager, tenant |-> tenant]

NoManager == [id |-> Null, ownerId |-> Null, approvePayments |-> FALSE]

Admin == MkUser("SUPER_ADMIN", Null, NoManager, Null)
OwnerA == MkUser("OWNER", "o1", NoManager, Null)
OwnerB == MkUser("OWNER", "o2", NoManager, Null)
\* a manager of owner o1 whose permissions map is the schema default {}
ManagerA == MkUser("MANAGER", Null,
                   [id |-> "m1", ownerId |-> "o1", approvePayments |-> FALSE], Null)
\* a manager of owner o1 with permissions {approvePayments: true}
ManagerP == MkUser("MANAGER", Null,
                   [id |-> "m2", ownerId |-> "o1", approvePayments |-> TRUE], Null)
Tenant1 == MkUser("TENANT", Null, NoManager, "t1")
Tenant2 == MkUser("TENANT", Null, NoManager, "t2")

Users == {Admin, OwnerA, OwnerB, ManagerA, ManagerP, Tenant1, Tenant2}

VARIABLES
    leases,        \* Lease rows: id -> row
    tenantActive,  \* Tenant.isActive
    payments,      \* Payment rows: id -> row
    receipts,      \* Receipt rows: id -> row
    complaints,    \* Complaint rows: id -> row
    maintenance,   \* MaintenanceRequest rows: id -> row
    now,           \* the clock, new Date()
    req,           \* the requests in progress and their responses, per slot
    nextId,        \* per table, the id the next create gives (never reused)
    properties,    \* the ids of the Property rows
    users,         \* User rows: id -> row
    owners,        \* Owner rows: id -> row
    managers,      \* Manager rows: id -> row
    analytics,     \* Analytics rows, in the order of their creation
    job,           \* the monthly report job: its position and what it read
    flagDb,        \* the FeatureFlag row of the one flag: "none", "on", "off"
    flagCache,     \* FeatureFlagService.flags of that flag
    lastUpdated,   \* FeatureFlagService.lastUpdated, 0 for null
    calls          \* the calls of the feature-flag service in progress

\* DEFAULT_FLAGS of the flag followed here (MOBILE_PUSH_NOTIFICATIONS)
DefaultFlag == FALSE
\* cacheTTL, in milliseconds as the clock's unit
CacheTTL == 300000

\* a call slot of the feature-flag service: readAt is the Date.now() taken at
\* the start of loadFlags, read the row findMany returned, result what the
\* call returned
NoCall == [op |-> "none", pc |-> "idle", value |-> FALSE, readAt |-> 0,
           read |-> "none", result |-> FALSE]

\* the report job before its schedule fires
NoJob == [pc |-> "idle", owners |-> <<>>, failed |-> {}]

\* the tables of accounts and properties
dirVars == <<properties, users, owners, managers>>

\* the state of the scheduled jobs and of the services
flagVars == <<flagDb, flagCache, lastUpdated, calls>>
svcVars == <<analytics, job, flagVars>>

vars == <<leases, tenantActive, payments, receipts, complaints, maintenance,
          now, req, nextId, dirVars, svcVars>>

storeVars == <<leases, tenantActive, payments, receipts, complaints, maintenance,
               dirVars>>

\* a User row with the ids of its Tenant, Owner and Manager profile
UserRow(role, tenant, owner, manager) ==
    [role |-> role, tenant |-> tenant, owner |-> owner, manager |-> manager,
     isActive |-> TRUE]

\* the accounts behind the callers and the two properties
SeedDirectory ==
    /\ properties = Properties
    /\ users = [id \in {"uAdmin", "uOwnerA", "uOwnerB", "uManagerA", "uManagerP",
                        "uTenant1", "uTenant2"} |->
                  CASE id = "uAdmin" -> UserRow("SUPER_ADMIN", Null, Null, Null)
                    [] id = "uOwnerA" -> UserRow("OWNER", Null, "o1", Null)
                    [] id = "uOwnerB" -> UserRow("OWNER", Null, "o2", Null)
                    [] id = "uManagerA" -> UserRow("MANAGER", Null, Null, "m1")
                    [] id = "uManagerP" -> UserRow("MANAGER", Null, Null, "m2")
                    [] id = "uTenant1" -> UserRow("TENANT", "t1", Null, Null)
                    [] id = "uTenant2" -> UserRow("TENANT", "t2", Null, Null)]
    /\ owners = [id \in Owners |->
                   [userId |-> IF id = "o1" THEN "uOwnerA" ELSE "uOwnerB",
                    companyName |-> ""]]
    /\ managers = [id \in {"m1", "m2"} |->
                     [userId |-> IF id = "m1" THEN "uManagerA" ELSE "uManagerP",
                      ownerId |-> "o1",
                      firstName |-> "",
                      approvePayments |-> (id = "m2")]]
    /\ analytics = <<>>
    /\ job = NoJob
    /\ flagDb = "none"
    /\ flagCache = DefaultFlag
    /\ lastUpdated = 0
    /\ calls = [c \in Slots |-> NoCall]

(* ------------------------------ rows ----------------------------------- *)
\* prisma.payment.create: status defaults to PENDING, method to ONLINE,
\* paidDate and transactionId to null
NewPayment(tenantId, leaseId, amount, dueDate, notes) ==
    [tenantId |-> tenantId, leaseId |-> leaseId, amount |-> amount,
     dueDate |-> dueDate, paidDate |-> 0, status |-> "PENDING",
     method |-> "ONLINE", transactionId |-> Null, notes |-> notes]

NoRow == [tenantId |-> Null, leaseId |-> 0, amount |-> 0, dueDate |-> 0,
          paidDate |-> 0, status |-> Null, method |-> Null,
          transactionId |-> Null, notes |-> Null]

\* the store is taken to keep the fields the lease handlers write; of a
\* lease the model keeps the parties, the dates, the status and the
\* termination record (rent, deposit, terms and utilities decide nothing)
NewLease(tenantId, propertyId, startDate, endDate) ==
    [tenantId |-> tenantId, propertyId |-> propertyId, startDate |-> startDate,
     endDate |-> endDate, status |-> "ACTIVE",
     terminationDate |-> 0, terminationReason |-> Null]

NoLease == [tenantId |-> Null, propertyId |-> Null, startDate |-> 0,
            endDate |-> 0, status |-> Null,
            terminationDate |-> 0, terminationReason |-> Null]

\* payment.lease.property.ownerId
PaymentOwner(p) == PropertyOwner(leases[p.leaseId].propertyId)

(* ---------------------------- requests --------------------------------- *)
NoArgs == [id |-> 0, tenantId |-> "", propertyId |-> "", leaseId |-> 0,
           amount |-> 0, date1 |-> 0, date2 |-> 0, method |-> "",
           transactionId |-> "", notes |-> "", status |-> "", userId |-> "",
           managerId |-> "", firstName |-> "", permissions |-> ""]

NoUserRow == [role |-> Null, tenant |-> Null, owner |-> Null, manager |-> Null,
              isActive |-> FALSE]

NoSnap == [row |-> NoRow, lease |-> NoLease, ids |-> {}, user |-> NoUserRow]

NoResp == [code |-> 0, error |-> "", ids |-> {}, total |-> <<>>]

Idle == [op |-> "none", user |-> Admin, args |-> NoArgs, pc |-> "idle",
         snap |-> NoSnap, resp |-> NoResp]

\* res.status(code).json({error, ...}) and res.json(body): ids are the ids of
\* the rows in the body, total the amount an aggregation reports
Reply(code, error, ids) ==
    [code |-> code, error |-> error, ids |-> ids, total |-> <<>>]

\* a request is taken up by the first slot that handles none (slots are names
\* of concurrent handler invocations, not part of the program)
Free(r) ==
    /\ req[r].pc \in {"idle", "done"}
    /\ \A q \in Slots : q < r => req[q].pc \notin {"idle", "done"}

\* an answered request keeps its operation, its caller, the id it is about,
\* the permissions it asked for and the response
Answered(args) == [NoArgs EXCEPT !.id = args.id, !.managerId = args.managerId,
                                  !.permissions = args.permissions]

Begin(r, op, user, args, pc, snap, resp) ==
    req' = [req EXCEPT ![r] = [op |-> op, user |-> user,
                               args |-> IF pc = "done" THEN Answered(args) ELSE args,
                               pc |-> pc, snap |-> snap, resp |-> resp]]

Finish(r, resp) ==
    req' = [req EXCEPT ![r].pc = "done", ![r].resp = resp, ![r].snap = NoSnap,
                       ![r].args = Answered(@)]

\* asyncHandler passes a rejected handler promise to the error middleware
InternalError == Reply(500, "Internal server error", {})

(* ---------------------- ownership scope of a caller -------------------- *)
\* req.user.role === 'OWNER' ? req.user.owner.id : req.user.manager.ownerId
\* (a TypeError when req.user.manager is null)
StrictOwnerId(u) ==
    IF u.role = "OWNER" THEN u.owner
    ELSE IF u.manager.ownerId = Null THEN TypeError
    ELSE u.manager.ownerId

\* req.user.role === 'OWNER' ? req.user.owner.id : req.user.manager?.ownerId
OptionalOwnerId(u) ==
    IF u.role = "OWNER" THEN u.owner
    ELSE IF u.manager.ownerId = Null THEN Undefined
    ELSE u.manager.ownerId

\* the role-based filtering of the list handlers: the ownerId the where
\* clause is narrowed to, "" when the handler adds no owner filter
RoleOwnerFilter(u) ==
    IF u.role = "OWNER" THEN u.owner
    ELSE IF u.role = "MANAGER" THEN u.manager.ownerId
    ELSE ""

(* --------------------------- markPaymentAsPaid ------------------------- *)
MarkInputs ==
    {[method |-> "CASH", transactionId |-> "tx1", notes |-> ""],
     [method |-> "CHECK", transactionId |-> "tx2", notes |-> "n2"]}

\* the checks between the read and the update: the response that ends the
\* request, or NoResp when the handler goes on to the update
MarkPaidChecksNoPaidGuard(u, id) ==
    IF id \notin DOMAIN payments THEN Reply(404, "Payment not found", {})
    ELSE IF StrictOwnerId(u) = TypeError THEN InternalError
    ELSE IF PaymentOwner(payments[id]) # StrictOwnerId(u) THEN Reply(403, "Forbidden", {})
    ELSE NoResp

MarkPaidChecks(u, id) ==
    IF id \notin DOMAIN payments THEN Reply(404, "Payment not found", {})
    ELSE IF payments[id].status = "PAID" THEN Reply(400, "Payment already paid", {})
    ELSE IF StrictOwnerId(u) = TypeError THEN InternalError
    ELSE IF PaymentOwner(payments[id]) # StrictOwnerId(u) THEN Reply(403, "Forbidden", {})
    ELSE NoResp

\* await prisma.payment.findUnique, then the checks
MarkPaidRead(r, u, id, in) ==
    /\ Free(r)
    /\ LET args == [NoArgs EXCEPT !.id = id, !.method = in.method,
                                  !.transactionId = in.transactionId, !.notes = in.notes]
           resp == MarkPaidChecks(u, id)
       IN IF resp # NoResp
          THEN Begin(r, "markPaymentAsPaid", u, args, "done", NoSnap, resp)
          ELSE Begin(r, "markPaymentAsPaid", u, args, "mp_update",
                     [NoSnap EXCEPT !.row = payments[id]], NoResp)
    /\ UNCHANGED <<storeVars, now, nextId>>
    /\ UNCHANGED svcVars

\* the row prisma.payment.update writes
PaidRow(row, args, snapRow, at) ==
    [row EXCEPT !.status = "PAID", !.method = args.method,
                !.transactionId = args.transactionId, !.paidDate = at,
                !.notes = IF args.notes # "" THEN args.notes ELSE snapRow.notes]

\* await prisma.payment.update({where: {id}, data: {status: 'PAID', ...}})
MarkPaidUpdate(r) ==
    /\ req[r].pc = "mp_update"
    /\ LET id == req[r].args.id
       IN IF id \notin DOMAIN payments
          THEN /\ Finish(r, InternalError)
               /\ UNCHANGED payments
          ELSE LET updated == PaidRow(payments[id], req[r].args, req[r].snap.row, now)
               IN /\ payments' = [payments EXCEPT ![id] = updated]
                  /\ req' = [req EXCEPT ![r].pc = "mp_receipt", ![r].snap.row = updated]
    /\ UNCHANGED <<leases, tenantActive, receipts, complaints, maintenance, now, nextId, dirVars>>
    /\ UNCHANGED svcVars

\* the try block: generatePaymentReceipt, uploadToCloudinary,
\* prisma.receipt.create, sendPaymentConfirmationEmail; a failure is logged
MarkPaidReceipt(r) ==
    /\ req[r].pc = "mp_receipt"
    /\ \/ /\ nextId.receipt <= MaxReceipts
          /\ req[r].args.id \in DOMAIN payments
          /\ receipts' = [x \in DOMAIN receipts \cup {nextId.receipt} |->
                            IF x \in DOMAIN receipts THEN receipts[x]
                            ELSE [paymentId |-> req[r].args.id,
                                  amount |-> req[r].snap.row.amount]]
          /\ nextId' = [nextId EXCEPT !.receipt = @ + 1]
       \/ UNCHANGED <<receipts, nextId>>
    /\ Finish(r, Reply(200, "", {req[r].args.id}))
    /\ UNCHANGED <<leases, tenantActive, payments, complaints, maintenance, now, dirVars>>
    /\ UNCHANGED svcVars

(* --------------------------- getOverduePayments ------------------------ *)
\* where = {status: 'PENDING', dueDate: {lt: new Date()}} plus the role filter
OverdueWhere(u, id) ==
    /\ payments[id].status = "PENDING"
    /\ payments[id].dueDate < now
    /\ RoleOwnerFilter(u) # "" => PaymentOwner(payments[id]) = RoleOwnerFilter(u)

\* await prisma.payment.findMany({where})
OverdueRead(r, u) ==
    /\ Free(r)
    /\ LET ids == {id \in DOMAIN payments : OverdueWhere(u, id)}
       IN IF ids = {}
          THEN Begin(r, "getOverduePayments", u, NoArgs, "done", NoSnap, Reply(200, "", {}))
          ELSE Begin(r, "getOverduePayments", u, NoArgs, "od_update",
                     [NoSnap EXCEPT !.ids = ids], NoResp)
    /\ UNCHANGED <<storeVars, now, nextId>>
    /\ UNCHANGED svcVars

\* the rows prisma.payment.updateMany({where: {id: {in: overdueIds}}}) changes
OverdueUpdateTargets(ids) == {id \in DOMAIN payments : id \in ids}

\* await prisma.payment.updateMany(... data: {status: 'OVERDUE'}), res.json
OverdueUpdate(r) ==
    /\ req[r].pc = "od_update"
    /\ payments' = [id \in DOMAIN payments |->
                      IF id \in OverdueUpdateTargets(req[r].snap.ids)
                      THEN [payments[id] EXCEPT !.status = "OVERDUE"]
                      ELSE payments[id]]
    /\ Finish(r, Reply(200, "", req[r].snap.ids))
    /\ UNCHANGED <<leases, tenantActive, receipts, complaints, maintenance, now, nextId, dirVars>>
    /\ UNCHANGED svcVars

(* ------------------- cronJobs.js: checkOverduePayments ----------------- *)
\* prisma.payment.updateMany({where: {status: 'PENDING', dueDate: {lt: now}},
\* data: {status: 'OVERDUE'}}): one statement; the e-mails that follow
\* change no row
SweepTargetsDueToday == {id \in DOMAIN payments :
                    payments[id].status = "PENDING" /\ payments[id].dueDate <= now}

SweepTargets == {id \in DOMAIN payments :
                    payments[id].status = "PENDING" /\ payments[id].dueDate < now}

CheckOverduePayments ==
    /\ SweepTargets # {}
    /\ payments' = [id \in DOMAIN payments |->
                      IF id \in SweepTargets
                      THEN [payments[id] EXCEPT !.status = "OVERDUE"]
                      ELSE payments[id]]
    /\ UNCHANGED <<leases, tenantActive, receipts, complaints, maintenance, now, req, nextId, dirVars>>
    /\ UNCHANGED svcVars

\* time passes
Tick ==
    /\ now < MaxNow
    /\ now' = now + 1
    /\ UNCHANGED <<storeVars, req, nextId>>
    /\ UNCHANGED svcVars

(* ------------------------------ createPayment -------------------------- *)
Amounts == {100}
DueDates == {1}

CreatePaymentChecks(u, tenantId, leaseId) ==
    IF leaseId \notin DOMAIN leases THEN Reply(404, "Lease not found", {})
    ELSE IF leases[leaseId].tenantId # tenantId THEN Reply(400, "Invalid tenant", {})
    ELSE IF StrictOwnerId(u) = TypeError THEN InternalError
    ELSE IF PropertyOwner(leases[leaseId].propertyId) # StrictOwnerId(u)
         THEN Reply(403, "Forbidden", {})
    ELSE NoResp

\* creates already past their checks, each about to insert a row
Creating(pc) == Cardinality({r \in Slots : req[r].pc = pc})

\* await prisma.lease.findUnique, then the checks
CreatePaymentRead(r, u, tenantId, leaseId, amount, dueDate) ==
    /\ Free(r)
    /\ nextId.payment + Creating("cp_create") <= MaxPayments
    /\ LET args == [NoArgs EXCEPT !.tenantId = tenantId, !.leaseId = leaseId,
                                  !.amount = amount, !.date1 = dueDate]
           resp == CreatePaymentChecks(u, tenantId, leaseId)
       IN IF resp # NoResp
          THEN Begin(r, "createPayment", u, args, "done", NoSnap, resp)
          ELSE Begin(r, "createPayment", u, args, "cp_create",
                     [NoSnap EXCEPT !.lease = leases[leaseId]], NoResp)
    /\ UNCHANGED <<storeVars, now, nextId>>
    /\ UNCHANGED svcVars

\* await prisma.payment.create; the reminder e-mail's failure is logged
CreatePaymentInsert(r) ==
    /\ req[r].pc = "cp_create"
    /\ LET a == req[r].args
           id == nextId.payment
       IN IF a.leaseId \notin DOMAIN leases
          THEN /\ Finish(r, InternalError)
               /\ UNCHANGED <<payments, nextId>>
          ELSE /\ payments' = [x \in DOMAIN payments \cup {id} |->
                                 IF x \in DOMAIN payments THEN payments[x]
                                 ELSE NewPayment(a.tenantId, a.leaseId, a.amount, a.date1, Null)]
               /\ nextId' = [nextId EXCEPT !.payment = @ + 1]
               /\ Finish(r, Reply(201, "", {id}))
    /\ UNCHANGED <<leases, tenantActive, receipts, complaints, maintenance, now, dirVars>>
    /\ UNCHANGED svcVars

(* ------------------------------ initial store -------------------------- *)
NoRows == [x \in {} |-> NoRow]

\* two leases, as createLease by each owner for a tenant of its property
\* leaves them
SeedLeases == [x \in {1, 2} |->
                 IF x = 1 THEN NewLease("t1", "p1", 1, 3) ELSE NewLease("t2", "p2", 1, 3)]

InitPay ==
    /\ leases = SeedLeases
    /\ tenantActive = [t \in Tenants |-> TRUE]
    /\ payments = NoRows
    /\ receipts = NoRows
    /\ complaints = NoRows
    /\ maintenance = NoRows
    /\ now = 1
    /\ req = [r \in Slots |-> Idle]
    /\ nextId = [lease |-> 3, payment |-> 1, receipt |-> 1]
    /\ SeedDirectory

\* the callers and the createPayment inputs of the payment-lifecycle runs
PayUsers == {OwnerA}
PayTenants == {"t1"}
PayLeases == {1}

NextPay ==
    \/ \E r \in Slots, u \in PayUsers, id \in 1..MaxPayments, in \in MarkInputs :
          MarkPaidRead(r, u, id, in)
    \/ \E r \in Slots : MarkPaidUpdate(r)
    \/ \E r \in Slots : MarkPaidReceipt(r)
    \/ \E r \in Slots, u \in PayUsers : OverdueRead(r, u)
    \/ \E r \in Slots : OverdueUpdate(r)
    \/ \E r \in Slots, u \in PayUsers, t \in PayTenants, l \in PayLeases,
          a \in Amounts, d \in DueDates : CreatePaymentRead(r, u, t, l, a, d)
    \/ \E r \in Slots : CreatePaymentInsert(r)
    \/ CheckOverduePayments
    \/ Tick

SpecPay == InitPay /\ [][NextPay]_vars

(* ------------------------------- createLease -------------------------- *)
\* the <<startDate, endDate>> of the create requests: ranges that are
\* disjoint, and ranges that meet in one date
DateRanges == {<<1, 2>>, <<2, 3>>, <<3, 4>>}

\* the newEndDate of the renew requests: before and after every endDate
RenewDates == {1, 4}

CreateLeaseChecks(u, tenantId, propertyId) ==
    IF tenantId \notin Tenants THEN Reply(404, "Tenant not found", {})
    ELSE IF propertyId \notin Properties THEN Reply(404, "Property not found", {})
    ELSE IF PropertyOwner(propertyId) # OptionalOwnerId(u) THEN Reply(403, "Forbidden", {})
    ELSE NoResp

\* await Promise.all([tenant.findUnique, property.findUnique]), the checks
CreateLeaseRead(r, u, tenantId, propertyId, startDate, endDate) ==
    /\ Free(r)
    /\ nextId.lease + Creating("cl_check") + Creating("cl_create") <= MaxLeases
    /\ LET args == [NoArgs EXCEPT !.tenantId = tenantId, !.propertyId = propertyId,
                                  !.date1 = startDate, !.date2 = endDate]
           resp == CreateLeaseChecks(u, tenantId, propertyId)
       IN IF resp # NoResp
          THEN Begin(r, "createLease", u, args, "done", NoSnap, resp)
          ELSE Begin(r, "createLease", u, args, "cl_check", NoSnap, NoResp)
    /\ UNCHANGED <<storeVars, now, nextId>>
    /\ UNCHANGED svcVars

\* the where clause of the findFirst for a conflicting lease
ConflictingLease(l, tenantId, propertyId, startDate, endDate) ==
    \/ l.tenantId = tenantId /\ l.status = "ACTIVE"
    \/ /\ l.propertyId = propertyId
       /\ l.status = "ACTIVE"
       /\ l.startDate <= endDate
       /\ l.endDate >= startDate

\* await prisma.lease.findFirst, "Conflicting lease" when a row is found
CreateLeaseCheck(r) ==
    /\ req[r].pc = "cl_check"
    /\ LET a == req[r].args
       IN IF \E id \in DOMAIN leases :
                ConflictingLease(leases[id], a.tenantId, a.propertyId, a.date1, a.date2)
          THEN Finish(r, Reply(400, "Conflicting lease", {}))
          ELSE req' = [req EXCEPT ![r].pc = "cl_create"]
    /\ UNCHANGED <<storeVars, now, nextId>>
    /\ UNCHANGED svcVars

\* await prisma.lease.create
CreateLeaseInsert(r) ==
    /\ req[r].pc = "cl_create"
    /\ LET a == req[r].args
           id == nextId.lease
       IN /\ leases' = [x \in DOMAIN leases \cup {id} |->
                          IF x \in DOMAIN leases THEN leases[x]
                          ELSE NewLease(a.tenantId, a.propertyId, a.date1, a.date2)]
          /\ nextId' = [nextId EXCEPT !.lease = @ + 1]
          /\ req' = [req EXCEPT ![r].pc = "cl_tenant", ![r].args.id = id]
    /\ UNCHANGED <<tenantActive, payments, receipts, complaints, maintenance, now, dirVars>>
    /\ UNCHANGED svcVars

\* the answer after the awaited writes: sendNotificationToUser runs inside
\* the handler's try block, so a throw of it is answered 500
AfterNotify(code, ids) == {Reply(code, "", ids), InternalError}

\* await prisma.tenant.update({isActive: true}), notification, res.status(201)
CreateLeaseTenant(r) ==
    /\ req[r].pc = "cl_tenant"
    /\ tenantActive' = [tenantActive EXCEPT ![req[r].args.tenantId] = TRUE]
    /\ \E resp \in AfterNotify(201, {req[r].args.id}) : Finish(r, resp)
    /\ UNCHANGED <<leases, payments, receipts, complaints, maintenance, now, nextId, dirVars>>
    /\ UNCHANGED svcVars

(* ---------------- renewLease, updateLease, terminateLease -------------- *)
\* the 404 and the ownership check the lease handlers share
LeaseAccess(u, id) ==
    IF id \notin DOMAIN leases THEN Reply(404, "Lease not found", {})
    ELSE IF PropertyOwner(leases[id].propertyId) # OptionalOwnerId(u)
         THEN Reply(403, "Forbidden", {})
    ELSE NoResp

RenewLeaseChecks(u, id) ==
    IF LeaseAccess(u, id) # NoResp THEN LeaseAccess(u, id)
    ELSE IF leases[id].status # "ACTIVE" THEN Reply(400, "Cannot renew lease", {})
    ELSE NoResp

\* await prisma.lease.findUnique, the checks
RenewLeaseRead(r, u, id, newEndDate) ==
    /\ Free(r)
    /\ LET args == [NoArgs EXCEPT !.id = id, !.date2 = newEndDate]
           resp == RenewLeaseChecks(u, id)
       IN IF resp # NoResp
          THEN Begin(r, "renewLease", u, args, "done", NoSnap, resp)
          ELSE Begin(r, "renewLease", u, args, "rl_update",
                     [NoSnap EXCEPT !.lease = leases[id]], NoResp)
    /\ UNCHANGED <<storeVars, now, nextId>>
    /\ UNCHANGED svcVars

\* await prisma.lease.update({data: {endDate: new Date(newEndDate)}})
RenewLeaseUpdate(r) ==
    /\ req[r].pc = "rl_update"
    /\ LET id == req[r].args.id
       IN IF id \notin DOMAIN leases
          THEN /\ Finish(r, InternalError)
               /\ UNCHANGED leases
          ELSE /\ leases' = [leases EXCEPT ![id].endDate = req[r].args.date2]
               /\ \E resp \in AfterNotify(200, {id}) : Finish(r, resp)
    /\ UNCHANGED <<tenantActive, payments, receipts, complaints, maintenance, now, nextId, dirVars>>
    /\ UNCHANGED svcVars

\* await prisma.lease.findUnique, the checks
UpdateLeaseRead(r, u, id) ==
    /\ Free(r)
    /\ LET args == [NoArgs EXCEPT !.id = id]
           resp == LeaseAccess(u, id)
       IN IF resp # NoResp
          THEN Begin(r, "updateLease", u, args, "done", NoSnap, resp)
          ELSE Begin(r, "updateLease", u, args, "ul_update",
                     [NoSnap EXCEPT !.lease = leases[id]], NoResp)
    /\ UNCHANGED <<storeVars, now, nextId>>
    /\ UNCHANGED svcVars

\* await prisma.lease.update({data: {monthlyRent, terms, utilities}}): no
\* date, status or party of the lease is written; the tenant is notified
\* when the rent changed
UpdateLeaseUpdate(r) ==
    /\ req[r].pc = "ul_update"
    /\ LET id == req[r].args.id
       IN IF id \notin DOMAIN leases
          THEN Finish(r, InternalError)
          ELSE \E resp \in AfterNotify(200, {id}) : Finish(r, resp)
    /\ UNCHANGED <<storeVars, now, nextId>>
    /\ UNCHANGED svcVars

Reasons == {"moved out"}

TerminateLeaseChecksNoGuard(u, id) == LeaseAccess(u, id)

TerminateLeaseChecks(u, id) ==
    IF LeaseAccess(u, id) # NoResp THEN LeaseAccess(u, id)
    ELSE IF leases[id].status = "TERMINATED" THEN Reply(400, "Lease already terminated", {})
    ELSE NoResp

\* await prisma.lease.findUnique, the checks
TerminateLeaseRead(r, u, id, reason) ==
    /\ Free(r)
    /\ LET args == [NoArgs EXCEPT !.id = id, !.notes = reason]
           resp == TerminateLeaseChecks(u, id)
       IN IF resp # NoResp
          THEN Begin(r, "terminateLease", u, args, "done", NoSnap, resp)
          ELSE Begin(r, "terminateLease", u, args, "tl_update",
                     [NoSnap EXCEPT !.lease = leases[id]], NoResp)
    /\ UNCHANGED <<storeVars, now, nextId>>
    /\ UNCHANGED svcVars

\* await prisma.lease.update({status: 'TERMINATED', terminationDate, reason})
TerminateLeaseUpdate(r) ==
    /\ req[r].pc = "tl_update"
    /\ LET id == req[r].args.id
       IN IF id \notin DOMAIN leases
          THEN /\ Finish(r, InternalError)
               /\ UNCHANGED leases
          ELSE /\ leases' = [leases EXCEPT ![id].status = "TERMINATED",
                                           ![id].terminationDate = now,
                                           ![id].terminationReason = req[r].args.notes]
               /\ req' = [req EXCEPT ![r].pc = "tl_tenant"]
    /\ UNCHANGED <<tenantActive, payments, receipts, complaints, maintenance, now, nextId, dirVars>>
    /\ UNCHANGED svcVars

\* await prisma.tenant.update({isActive: false}), notification, res.json
TerminateLeaseTenant(r) ==
    /\ req[r].pc = "tl_tenant"
    /\ tenantActive' = [tenantActive EXCEPT ![req[r].snap.lease.tenantId] = FALSE]
    /\ \E resp \in AfterNotify(200, {req[r].args.id}) : Finish(r, resp)
    /\ UNCHANGED <<leases, payments, receipts, complaints, maintenance, now, nextId, dirVars>>
    /\ UNCHANGED svcVars

(* ------------------------------- deleteLease --------------------------- *)
PaymentsOfLease(id) == {x \in DOMAIN payments : payments[x].leaseId = id}

DeleteLeaseChecks(u, id) ==
    IF LeaseAccess(u, id) # NoResp THEN LeaseAccess(u, id)
    ELSE IF PaymentsOfLease(id) # {} THEN Reply(400, "Cannot delete lease", {})
    ELSE NoResp

\* await prisma.lease.findUnique({include: {payments}}), the checks
DeleteLeaseRead(r, u, id) ==
    /\ Free(r)
    /\ LET args == [NoArgs EXCEPT !.id = id]
           resp == DeleteLeaseChecks(u, id)
       IN IF resp # NoResp
          THEN Begin(r, "deleteLease", u, args, "done", NoSnap, resp)
          ELSE Begin(r, "deleteLease", u, args, "dl_delete", NoSnap, NoResp)
    /\ UNCHANGED <<storeVars, now, nextId>>
    /\ UNCHANGED svcVars

Restrict(table, keep) == [x \in keep |-> table[x]]

\* await prisma.lease.delete: the payments of the lease and their receipts go
\* with it (onDelete: Cascade)
DeleteLeaseDelete(r) ==
    /\ req[r].pc = "dl_delete"
    /\ LET id == req[r].args.id
           gone == PaymentsOfLease(id)
       IN IF id \notin DOMAIN leases
          THEN /\ Finish(r, InternalError)
               /\ UNCHANGED <<leases, payments, receipts>>
          ELSE /\ leases' = Restrict(leases, DOMAIN leases \ {id})
               /\ payments' = Restrict(payments, DOMAIN payments \ gone)
               /\ receipts' = Restrict(receipts,
                                 {x \in DOMAIN receipts : receipts[x].paymentId \notin gone})
               /\ Finish(r, Reply(200, "", {id}))
    /\ UNCHANGED <<tenantActive, complaints, maintenance, now, nextId, dirVars>>
    /\ UNCHANGED svcVars

(* ------------------- deleteProperty, deleteUser: cascades -------------- *)
\* what the database removes with the Property rows ps and the Tenant rows ts
\* (onDelete: Cascade from Property to Tenant, Lease and Complaint, from
\* Tenant and Lease to Lease and Payment, from Payment to Receipt; SetNull
\* from Tenant to Complaint)
TenantsGone(ps, ts) ==
    ts \cup {t \in DOMAIN tenantActive : TenantProperty(t) \in ps}
LeasesGone(ps, ts) ==
    {l \in DOMAIN leases : \/ leases[l].propertyId \in ps
                           \/ leases[l].tenantId \in TenantsGone(ps, ts)}
PaymentsGone(ps, ts) ==
    {x \in DOMAIN payments : \/ payments[x].leaseId \in LeasesGone(ps, ts)
                             \/ payments[x].tenantId \in TenantsGone(ps, ts)}

CascadeDelete(ps, ts) ==
    /\ tenantActive' = Restrict(tenantActive, DOMAIN tenantActive \ TenantsGone(ps, ts))
    /\ leases' = Restrict(leases, DOMAIN leases \ LeasesGone(ps, ts))
    /\ payments' = Restrict(payments, DOMAIN payments \ PaymentsGone(ps, ts))
    /\ receipts' = Restrict(receipts, {x \in DOMAIN receipts :
                                         receipts[x].paymentId \notin PaymentsGone(ps, ts)})
    /\ complaints' = [x \in {c \in DOMAIN complaints : complaints[c].propertyId \notin ps} |->
                        IF complaints[x].tenantId \in TenantsGone(ps, ts)
                        THEN [complaints[x] EXCEPT !.tenantId = Null]
                        ELSE complaints[x]]

\* the checks of deleteProperty, in the handler's order
DeletePropertyChecks(u, p) ==
    IF p \notin properties THEN Reply(404, "Property not found", {})
    ELSE IF StrictOwnerId(u) = TypeError THEN InternalError
    ELSE IF PropertyOwner(p) # StrictOwnerId(u) THEN Reply(403, "Forbidden", {})
    ELSE IF \/ \E t \in DOMAIN tenantActive : TenantProperty(t) = p /\ tenantActive[t]
            \/ \E l \in DOMAIN leases : leases[l].propertyId = p /\ leases[l].status = "ACTIVE"
         THEN Reply(400, "Cannot delete property", {})
    ELSE NoResp

\* await prisma.property.findUnique({include: active tenants and leases})
DeletePropertyRead(r, u, p) ==
    /\ Free(r)
    /\ LET args == [NoArgs EXCEPT !.propertyId = p]
           resp == DeletePropertyChecks(u, p)
       IN IF resp # NoResp
          THEN Begin(r, "deleteProperty", u, args, "done", NoSnap, resp)
          ELSE Begin(r, "deleteProperty", u, args, "dp_delete", NoSnap, NoResp)
    /\ UNCHANGED <<storeVars, now, nextId>>
    /\ UNCHANGED svcVars

\* await prisma.property.delete: refused by the database while a
\* MaintenanceRequest refers to the property (no onDelete on that relation),
\* else the property goes with everything that cascades from it
DeletePropertyDelete(r) ==
    /\ req[r].pc = "dp_delete"
    /\ LET p == req[r].args.propertyId
       IN IF \/ p \notin properties
             \/ \E m \in DOMAIN maintenance : maintenance[m].propertyId = p
          THEN /\ Finish(r, InternalError)
               /\ UNCHANGED <<leases, tenantActive, payments, receipts, complaints,
                              properties>>
          ELSE /\ properties' = properties \ {p}
               /\ CascadeDelete({p}, {})
               /\ Finish(r, Reply(200, "", {}))
    /\ UNCHANGED <<maintenance, now, nextId, users, owners, managers>>
    /\ UNCHANGED svcVars

\* await prisma.user.findUnique({include: tenant, owner, manager})
DeleteUserRead(r, u, id) ==
    /\ Free(r)
    /\ LET args == [NoArgs EXCEPT !.userId = id]
       IN IF id \notin DOMAIN users
          THEN Begin(r, "deleteUser", u, args, "done", NoSnap,
                     Reply(404, "User not found", {}))
          ELSE Begin(r, "deleteUser", u, args, "du_count",
                     [NoSnap EXCEPT !.user = users[id]], NoResp)
    /\ UNCHANGED <<storeVars, now, nextId>>
    /\ UNCHANGED svcVars

\* an OWNER with properties and a TENANT with ACTIVE leases are not deleted
DeleteUserBlocked(row) ==
    IF row.role = "OWNER" /\ \E p \in properties : PropertyOwner(p) = row.owner
    THEN Reply(400, "Cannot delete owner with active properties", {})
    ELSE IF row.role = "TENANT" /\ \E l \in DOMAIN leases :
                leases[l].tenantId = row.tenant /\ leases[l].status = "ACTIVE"
    THEN Reply(400, "Cannot delete tenant with active leases", {})
    ELSE NoResp

\* await prisma.property.count / await prisma.lease.count
DeleteUserCount(r) ==
    /\ req[r].pc = "du_count"
    /\ IF DeleteUserBlocked(req[r].snap.user) # NoResp
       THEN Finish(r, DeleteUserBlocked(req[r].snap.user))
       ELSE req' = [req EXCEPT ![r].pc = "du_profile"]
    /\ UNCHANGED <<storeVars, now, nextId>>
    /\ UNCHANGED svcVars

\* the properties of an owner, which go with the Owner row (onDelete: Cascade)
PropertiesOf(owner) == {p \in properties : PropertyOwner(p) = owner}

\* the profile delete of deleteUser throws: the row is no longer there, or a
\* MaintenanceRequest refers to a property that would go with the owner
ProfileDeleteFails(row) ==
    IF row.tenant # Null THEN row.tenant \notin DOMAIN tenantActive
    ELSE IF row.owner # Null
    THEN \/ row.owner \notin DOMAIN owners
         \/ \E m \in DOMAIN maintenance : maintenance[m].propertyId \in PropertiesOf(row.owner)
    ELSE IF row.manager # Null THEN row.manager \notin DOMAIN managers
    ELSE FALSE

\* await prisma.tenant.delete / owner.delete / manager.delete ({userId: id})
DeleteUserProfile(r) ==
    /\ req[r].pc = "du_profile"
    /\ LET row == req[r].snap.user
       IN IF ProfileDeleteFails(row)
          THEN /\ Finish(r, InternalError)
               /\ UNCHANGED <<leases, tenantActive, payments, receipts, complaints,
                              properties, owners, managers>>
          ELSE /\ req' = [req EXCEPT ![r].pc = "du_user"]
               /\ IF row.tenant # Null
                  THEN /\ CascadeDelete({}, {row.tenant})
                       /\ UNCHANGED <<properties, owners, managers>>
                  ELSE IF row.owner # Null
                  THEN /\ owners' = Restrict(owners, DOMAIN owners \ {row.owner})
                       /\ managers' = Restrict(managers, {m \in DOMAIN managers :
                                                   managers[m].ownerId # row.owner})
                       /\ properties' = properties \ PropertiesOf(row.owner)
                       /\ CascadeDelete(PropertiesOf(row.owner), {})
                  ELSE IF row.manager # Null
                  THEN /\ managers' = Restrict(managers, DOMAIN managers \ {row.manager})
                       /\ UNCHANGED <<leases, tenantActive, payments, receipts, complaints,
                                      properties, owners>>
                  ELSE UNCHANGED <<leases, tenantActive, payments, receipts, complaints,
                                   properties, owners, managers>>
    /\ UNCHANGED <<maintenance, now, nextId, users>>
    /\ UNCHANGED svcVars

\* await prisma.user.delete: refused while a MaintenanceRequest was requested
\* by the user (no onDelete on that relation); an assignment is set to null
DeleteUserUser(r) ==
    /\ req[r].pc = "du_user"
    /\ LET id == req[r].args.userId
       IN IF \/ id \notin DOMAIN users
             \/ \E m \in DOMAIN maintenance : maintenance[m].requestedById = id
          THEN /\ Finish(r, InternalError)
               /\ UNCHANGED <<users, maintenance>>
          ELSE /\ users' = Restrict(users, DOMAIN users \ {id})
               /\ maintenance' = [m \in DOMAIN maintenance |->
                                     IF maintenance[m].assignedToId = id
                                     THEN [maintenance[m] EXCEPT !.assignedToId = Null]
                                     ELSE maintenance[m]]
               /\ Finish(r, Reply(200, "", {}))
    /\ UNCHANGED <<leases, tenantActive, payments, receipts, complaints, now, nextId,
                   properties, owners, managers>>
    /\ UNCHANGED svcVars

(* ------------------------------ deletion runs -------------------------- *)
\* tenant t1 rents p1 from owner o1 and owes one payment; tenant t2 rents p2
\* from owner o2 and has no payment yet
InitDelete ==
    /\ leases = SeedLeases
    /\ tenantActive = [t \in Tenants |-> TRUE]
    /\ payments = [x \in {1} |-> NewPayment("t1", 1, 100, 1, Null)]
    /\ receipts = NoRows
    /\ complaints = [x \in {1} |-> [propertyId |-> "p1", tenantId |-> "t1", status |-> "OPEN"]]
    /\ maintenance = [x \in {1} |-> [propertyId |-> "p2", status |-> "OPEN",
                                      requestedById |-> "uTenant2",
                                      assignedToId |-> Null]]
    /\ now = 1
    /\ req = [r \in Slots |-> Idle]
    /\ nextId = [lease |-> 3, payment |-> 2, receipt |-> 1]
    /\ SeedDirectory

DeleteUsers == {OwnerA, OwnerB}
DeleteTargets == {"uTenant1", "uTenant2", "uOwnerA", "uOwnerB", "uManagerA", "uAdmin"}

\* settlement, termination and the deletes, one request at a time
NextDelete ==
    \/ \E u \in DeleteUsers, id \in {1}, in \in MarkInputs : MarkPaidRead(1, u, id, in)
    \/ MarkPaidUpdate(1)
    \/ MarkPaidReceipt(1)
    \/ \E u \in DeleteUsers, id \in {1, 2}, rs \in Reasons : TerminateLeaseRead(1, u, id, rs)
    \/ TerminateLeaseUpdate(1)
    \/ TerminateLeaseTenant(1)
    \/ \E u \in DeleteUsers, id \in {1, 2} : DeleteLeaseRead(1, u, id)
    \/ DeleteLeaseDelete(1)
    \/ \E u \in DeleteUsers, p \in Properties : DeletePropertyRead(1, u, p)
    \/ DeletePropertyDelete(1)
    \/ \E id \in DeleteTargets : DeleteUserRead(1, Admin, id)
    \/ DeleteUserCount(1)
    \/ DeleteUserProfile(1)
    \/ DeleteUserUser(1)

SpecDelete == InitDelete /\ [][NextDelete]_vars

\* deleteLease next to createPayment, the two overlapping
InitDeleteRace ==
    /\ leases = SeedLeases
    /\ tenantActive = [t \in Tenants |-> TRUE]
    /\ payments = NoRows
    /\ receipts = NoRows
    /\ complaints = NoRows
    /\ maintenance = NoRows
    /\ now = 1
    /\ req = [r \in Slots |-> Idle]
    /\ nextId = [lease |-> 3, payment |-> 1, receipt |-> 1]
    /\ SeedDirectory

NextDeleteRace ==
    \/ \E r \in Slots, u \in DeleteUsers, id \in {1, 2} : DeleteLeaseRead(r, u, id)
    \/ \E r \in Slots : DeleteLeaseDelete(r)
    \/ \E r \in Slots, u \in DeleteUsers, t \in Tenants, l \in {1, 2},
          a \in Amounts, d \in DueDates : CreatePaymentRead(r, u, t, l, a, d)
    \/ \E r \in Slots : CreatePaymentInsert(r)

SpecDeleteRace == InitDeleteRace /\ [][NextDeleteRace]_vars

(* --------------------------- updateManager, updateUser ----------------- *)
\* req.body.permissions: "" when absent, else the map, {approvePayments:
\* true} or {} (an object, so truthy either way)
PermissionInputs == {"", "approve", "empty"}
NameInputs == {"", "Ann"}

\* the checks of updateManager, in the handler's order
UpdateManagerChecks(u, id, permissions) ==
    IF id \notin DOMAIN managers THEN Reply(404, "Manager not found", {})
    ELSE IF u.role = "OWNER" /\ managers[id].ownerId # u.owner
         THEN Reply(403, "Forbidden", {})
    ELSE IF u.role = "MANAGER" /\ id # u.manager.id /\ permissions # ""
         THEN Reply(403, "Forbidden", {})
    ELSE NoResp

\* updateData applied to the row: firstName when given, permissions when
\* given and the caller is an OWNER
UpdateManagerDataAnyRole(u, row, firstName, permissions) ==
    [row EXCEPT !.firstName = IF firstName # "" THEN firstName ELSE @,
                !.approvePayments = IF permissions # ""
                                    THEN permissions = "approve" ELSE @]

UpdateManagerData(u, row, firstName, permissions) ==
    [row EXCEPT !.firstName = IF firstName # "" THEN firstName ELSE @,
                !.approvePayments = IF permissions # "" /\ u.role = "OWNER"
                                    THEN permissions = "approve" ELSE @]

\* await prisma.manager.findUnique, the checks
UpdateManagerRead(r, u, id, firstName, permissions) ==
    /\ Free(r)
    /\ LET args == [NoArgs EXCEPT !.managerId = id, !.firstName = firstName,
                                  !.permissions = permissions]
           resp == UpdateManagerChecks(u, id, permissions)
       IN IF resp # NoResp
          THEN Begin(r, "updateManager", u, args, "done", NoSnap, resp)
          ELSE Begin(r, "updateManager", u, args, "um_update", NoSnap, NoResp)
    /\ UNCHANGED <<storeVars, now, nextId>>
    /\ UNCHANGED svcVars

\* await prisma.manager.update({where: {id}, data: updateData}), res.json
UpdateManagerUpdate(r) ==
    /\ req[r].pc = "um_update"
    /\ LET id == req[r].args.managerId
       IN IF id \notin DOMAIN managers
          THEN /\ Finish(r, InternalError)
               /\ UNCHANGED managers
          ELSE /\ managers' = [managers EXCEPT ![id] =
                                  UpdateManagerData(req[r].user, @, req[r].args.firstName,
                                                    req[r].args.permissions)]
               /\ Finish(r, Reply(200, "", {}))
    /\ UNCHANGED <<leases, tenantActive, payments, receipts, complaints, maintenance,
                   now, nextId, properties, users, owners>>
    /\ UNCHANGED svcVars

\* admin updateUser: await prisma.user.findUnique
UpdateUserRead(r, u, id, firstName) ==
    /\ Free(r)
    /\ LET args == [NoArgs EXCEPT !.userId = id, !.firstName = firstName]
       IN IF id \notin DOMAIN users
          THEN Begin(r, "updateUser", u, args, "done", NoSnap,
                     Reply(404, "User not found", {}))
          ELSE Begin(r, "updateUser", u, args, "uu_user",
                     [NoSnap EXCEPT !.user = users[id]], NoResp)
    /\ UNCHANGED <<storeVars, now, nextId>>
    /\ UNCHANGED svcVars

\* await prisma.user.update (names, email, isActive: no modelled field); the
\* role-specific record follows when a name, phone or address was given
UpdateUserUser(r) ==
    /\ req[r].pc = "uu_user"
    /\ IF req[r].args.userId \notin DOMAIN users
       THEN Finish(r, InternalError)
       ELSE IF req[r].args.firstName = ""
       THEN Finish(r, Reply(200, "", {}))
       ELSE req' = [req EXCEPT ![r].pc = "uu_profile"]
    /\ UNCHANGED <<storeVars, now, nextId>>
    /\ UNCHANGED svcVars

\* await prisma.tenant.update / owner.update / manager.update with
\* roleUpdateData ({firstName, lastName, phone, address})
UpdateUserProfile(r) ==
    /\ req[r].pc = "uu_profile"
    /\ LET row == req[r].snap.user
       IN IF row.tenant = Null /\ row.owner = Null /\ row.manager # Null
          THEN IF row.manager \in DOMAIN managers
               THEN /\ managers' = [managers EXCEPT ![row.manager].firstName =
                                                       req[r].args.firstName]
                    /\ Finish(r, Reply(200, "", {}))
               ELSE /\ Finish(r, InternalError)
                    /\ UNCHANGED managers
          ELSE /\ IF \/ row.tenant # Null /\ row.tenant \notin DOMAIN tenantActive
                     \/ row.tenant = Null /\ row.owner # Null /\ row.owner \notin DOMAIN owners
                  THEN Finish(r, InternalError)
                  ELSE Finish(r, Reply(200, "", {}))
               /\ UNCHANGED managers
    /\ UNCHANGED <<leases, tenantActive, payments, receipts, complaints, maintenance,
                   now, nextId, properties, users, owners>>
    /\ UNCHANGED svcVars

(* ------------------------------ manager runs --------------------------- *)
ManagerTargets == {"uManagerA", "uOwnerA", "uTenant1"}

\* every kind of caller updates managers, one request at a time
NextManager ==
    \/ \E u \in Users, id \in {"m1", "m2"}, f \in NameInputs, pm \in PermissionInputs :
          UpdateManagerRead(1, u, id, f, pm)
    \/ UpdateManagerUpdate(1)
    \/ \E id \in ManagerTargets, f \in NameInputs : UpdateUserRead(1, Admin, id, f)
    \/ UpdateUserUser(1)
    \/ UpdateUserProfile(1)

SpecManager == InitDeleteRace /\ [][NextManager]_vars

(* ------------------------------- sweep runs ---------------------------- *)
\* payments as the handlers leave them: created PENDING, settled, or
\* cancelled, due on any of three days
SweepStatuses == {"PENDING", "PAID", "CANCELLED"}
SweepDueDates == {1, 2, 3}

SweepRow(tenantId, leaseId, status, dueDate) ==
    [NewPayment(tenantId, leaseId, 100, dueDate, Null) EXCEPT
        !.status = status,
        !.paidDate = IF status = "PAID" THEN 1 ELSE 0]

InitSweep ==
    /\ leases = SeedLeases
    /\ tenantActive = [t \in Tenants |-> TRUE]
    /\ \E s1, s2 \in SweepStatuses, d1, d2 \in SweepDueDates :
          payments = [x \in {1, 2} |-> IF x = 1 THEN SweepRow("t1", 1, s1, d1)
                                       ELSE SweepRow("t2", 2, s2, d2)]
    /\ receipts = NoRows
    /\ complaints = NoRows
    /\ maintenance = NoRows
    /\ now = 1
    /\ req = [r \in Slots |-> Idle]
    /\ nextId = [lease |-> 3, payment |-> 3, receipt |-> 1]
    /\ SeedDirectory

\* the daily job and the clock
NextSweep ==
    \/ CheckOverduePayments
    \/ Tick

SpecSweep == InitSweep /\ [][NextSweep]_vars

(* --------------------------- lease-lifecycle runs ---------------------- *)
NoLeases == [x \in {} |-> NoLease]

\* no lease yet; a tenant added to a property is active until deactivated
InitLease ==
    /\ leases = NoLeases
    /\ tenantActive = [t \in Tenants |-> TRUE]
    /\ payments = NoRows
    /\ receipts = NoRows
    /\ complaints = NoRows
    /\ maintenance = NoRows
    /\ now = 1
    /\ req = [r \in Slots |-> Idle]
    /\ nextId = [lease |-> 1, payment |-> 1, receipt |-> 1]
    /\ SeedDirectory

LeaseUsers == {OwnerA, OwnerB}

\* the caller of the one-at-a-time runs: an owner, who reaches its own
\* property p1 and not p2
SeqUsers == {OwnerA}

\* one request at a time
NextLease ==
    \/ \E r \in {1}, u \in SeqUsers, t \in Tenants, p \in Properties,
          d \in DateRanges : CreateLeaseRead(r, u, t, p, d[1], d[2])
    \/ \E r \in {1} : CreateLeaseCheck(r)
    \/ \E r \in {1} : CreateLeaseInsert(r)
    \/ \E r \in {1} : CreateLeaseTenant(r)
    \/ \E r \in {1}, u \in SeqUsers, id \in 1..MaxLeases, e \in RenewDates :
          RenewLeaseRead(r, u, id, e)
    \/ \E r \in {1} : RenewLeaseUpdate(r)
    \/ \E r \in {1}, u \in SeqUsers, id \in 1..MaxLeases : UpdateLeaseRead(r, u, id)
    \/ \E r \in {1} : UpdateLeaseUpdate(r)
    \/ \E r \in {1}, u \in SeqUsers, id \in 1..MaxLeases, x \in Reasons :
          TerminateLeaseRead(r, u, id, x)
    \/ \E r \in {1} : TerminateLeaseUpdate(r)
    \/ \E r \in {1} : TerminateLeaseTenant(r)
    \/ \E r \in {1}, u \in SeqUsers, id \in 1..MaxLeases : DeleteLeaseRead(r, u, id)
    \/ \E r \in {1} : DeleteLeaseDelete(r)

SpecLease == InitLease /\ [][NextLease]_vars

\* the lease handlers whose interleavings with each other matter
NextLeaseRace ==
    \/ \E r \in Slots, u \in LeaseUsers, t \in Tenants, p \in Properties,
          d \in DateRanges : CreateLeaseRead(r, u, t, p, d[1], d[2])
    \/ \E r \in Slots : CreateLeaseCheck(r)
    \/ \E r \in Slots : CreateLeaseInsert(r)
    \/ \E r \in Slots : CreateLeaseTenant(r)
    \/ \E r \in Slots, u \in LeaseUsers, id \in 1..MaxLeases, x \in Reasons :
          TerminateLeaseRead(r, u, id, x)
    \/ \E r \in Slots : TerminateLeaseUpdate(r)
    \/ \E r \in Slots : TerminateLeaseTenant(r)

SpecLeaseRace == InitLease /\ [][NextLeaseRace]_vars


(* --------------------- reads of payments and leases -------------------- *)
\* the access checks of getPaymentById
GetPaymentByIdChecks(u, id) ==
    IF id \notin DOMAIN payments THEN Reply(404, "Payment not found", {})
    ELSE IF u.role = "TENANT" /\ payments[id].tenantId # u.tenant
         THEN Reply(403, "Forbidden", {})
    ELSE IF u.role = "OWNER" /\ PaymentOwner(payments[id]) # u.owner
         THEN Reply(403, "Forbidden", {})
    ELSE IF u.role = "MANAGER" /\ PaymentOwner(payments[id]) # u.manager.ownerId
         THEN Reply(403, "Forbidden", {})
    ELSE Reply(200, "", {id})

GetPaymentById(r, u, id) ==
    /\ Free(r)
    /\ Begin(r, "getPaymentById", u, [NoArgs EXCEPT !.id = id], "done", NoSnap,
             GetPaymentByIdChecks(u, id))
    /\ UNCHANGED <<storeVars, now, nextId>>
    /\ UNCHANGED svcVars

\* the where object of the list handlers as its assignments leave it; ""
\* is a key that was not set
QueryTenantId(u, q) ==
    IF q.tenantId # "" THEN q.tenantId
    ELSE IF u.role = "TENANT" THEN u.tenant
    ELSE ""

\* getPayments: where.tenantId, where.lease.property.ownerId,
\* where.lease.propertyId, where.status
PaymentsWhere(u, q, id) ==
    /\ QueryTenantId(u, q) # "" => payments[id].tenantId = QueryTenantId(u, q)
    /\ RoleOwnerFilter(u) # "" => PaymentOwner(payments[id]) = RoleOwnerFilter(u)
    /\ q.propertyId # "" => leases[payments[id].leaseId].propertyId = q.propertyId
    /\ q.status # "" => payments[id].status = q.status

\* the query strings of the list requests
Queries == {[NoArgs EXCEPT !.tenantId = t, !.propertyId = p] :
               t \in {""} \cup Tenants, p \in {"", "p2"}}

GetPayments(r, u, q) ==
    /\ Free(r)
    /\ Begin(r, "getPayments", u, q, "done", NoSnap,
             Reply(200, "", {id \in DOMAIN payments : PaymentsWhere(u, q, id)}))
    /\ UNCHANGED <<storeVars, now, nextId>>
    /\ UNCHANGED svcVars

\* the checks of getPaymentReceipt, in the handler's order
GetPaymentReceiptChecks(u, id) ==
    IF id \notin DOMAIN payments THEN Reply(404, "Payment not found", {})
    ELSE IF payments[id].status # "PAID" THEN Reply(400, "Payment not paid", {})
    ELSE IF u.role = "TENANT" /\ payments[id].tenantId # u.tenant
         THEN Reply(403, "Forbidden", {})
    ELSE IF {x \in DOMAIN receipts : receipts[x].paymentId = id} = {}
         THEN Reply(404, "Receipt not found", {})
    ELSE Reply(200, "", {id})

GetPaymentReceipt(r, u, id) ==
    /\ Free(r)
    /\ Begin(r, "getPaymentReceipt", u, [NoArgs EXCEPT !.id = id], "done", NoSnap,
             GetPaymentReceiptChecks(u, id))
    /\ UNCHANGED <<storeVars, now, nextId>>
    /\ UNCHANGED svcVars

\* getLeases: where.property.ownerId, where.tenantId, where.propertyId,
\* where.status
LeasesWhere(u, q, id) ==
    /\ RoleOwnerFilter(u) # "" =>
           PropertyOwner(leases[id].propertyId) = RoleOwnerFilter(u)
    /\ QueryTenantId(u, q) # "" => leases[id].tenantId = QueryTenantId(u, q)
    /\ q.propertyId # "" => leases[id].propertyId = q.propertyId
    /\ q.status # "" => leases[id].status = q.status

GetLeases(r, u, q) ==
    /\ Free(r)
    /\ Begin(r, "getLeases", u, q, "done", NoSnap,
             Reply(200, "", {id \in DOMAIN leases : LeasesWhere(u, q, id)}))
    /\ UNCHANGED <<storeVars, now, nextId>>
    /\ UNCHANGED svcVars

GetLeaseByIdChecks(u, id) ==
    IF id \notin DOMAIN leases THEN Reply(404, "Lease not found", {})
    ELSE IF u.role = "OWNER" /\ PropertyOwner(leases[id].propertyId) # u.owner
         THEN Reply(403, "Forbidden", {})
    ELSE IF u.role = "MANAGER" /\ PropertyOwner(leases[id].propertyId) # u.manager.ownerId
         THEN Reply(403, "Forbidden", {})
    ELSE IF u.role = "TENANT" /\ leases[id].tenantId # u.tenant
         THEN Reply(403, "Forbidden", {})
    ELSE Reply(200, "", {id})

GetLeaseById(r, u, id) ==
    /\ Free(r)
    /\ Begin(r, "getLeaseById", u, [NoArgs EXCEPT !.id = id], "done", NoSnap,
             GetLeaseByIdChecks(u, id))
    /\ UNCHANGED <<storeVars, now, nextId>>
    /\ UNCHANGED svcVars

(* ------------- updateComplaintStatus, assignMaintenanceRequest --------- *)
ComplaintStatuses == {"IN_PROGRESS"}

\* await prisma.complaint.findUnique; "Complaint not found" or go on
UpdateComplaintStatusRead(r, u, id, status) ==
    /\ Free(r)
    /\ LET args == [NoArgs EXCEPT !.id = id, !.status = status]
       IN IF id \notin DOMAIN complaints
          THEN Begin(r, "updateComplaintStatus", u, args, "done", NoSnap,
                     Reply(404, "Complaint not found", {}))
          ELSE Begin(r, "updateComplaintStatus", u, args, "uc_update", NoSnap, NoResp)
    /\ UNCHANGED <<storeVars, now, nextId>>
    /\ UNCHANGED svcVars

\* await prisma.complaint.update({data: {status}}), notification, res.json
UpdateComplaintStatusUpdate(r) ==
    /\ req[r].pc = "uc_update"
    /\ complaints' = [complaints EXCEPT ![req[r].args.id].status = req[r].args.status]
    /\ \E resp \in AfterNotify(200, {req[r].args.id}) : Finish(r, resp)
    /\ UNCHANGED <<leases, tenantActive, payments, receipts, maintenance, now, nextId, dirVars>>
    /\ UNCHANGED svcVars

\* the users a maintenance request can be assigned to: id -> User.role, and
\* an id of no user
AssigneeRole(userId) ==
    IF userId = "uManagerA" THEN "MANAGER"
    ELSE IF userId = "uTenant1" THEN "TENANT"
    ELSE Null

Assignees == {"uManagerA", "uTenant1", "uNobody"}

\* await maintenanceRequest.findUnique, await user.findUnique, the checks
AssignMaintenanceRead(r, u, id, assignedToId) ==
    /\ Free(r)
    /\ LET args == [NoArgs EXCEPT !.id = id, !.tenantId = assignedToId]
       IN IF id \notin DOMAIN maintenance
          THEN Begin(r, "assignMaintenanceRequest", u, args, "done", NoSnap,
                     Reply(404, "Maintenance request not found", {}))
          ELSE IF AssigneeRole(assignedToId) \notin {"MANAGER", "OWNER"}
          THEN Begin(r, "assignMaintenanceRequest", u, args, "done", NoSnap,
                     Reply(400, "Invalid assignee", {}))
          ELSE Begin(r, "assignMaintenanceRequest", u, args, "am_update", NoSnap, NoResp)
    /\ UNCHANGED <<storeVars, now, nextId>>
    /\ UNCHANGED svcVars

\* await maintenanceRequest.update({assignedToId, status: 'IN_PROGRESS'})
AssignMaintenanceUpdate(r) ==
    /\ req[r].pc = "am_update"
    /\ maintenance' = [maintenance EXCEPT
                          ![req[r].args.id].assignedToId = req[r].args.tenantId,
                          ![req[r].args.id].status = "IN_PROGRESS"]
    /\ \E resp \in AfterNotify(200, {req[r].args.id}) : Finish(r, resp)
    /\ UNCHANGED <<leases, tenantActive, payments, receipts, complaints, now, nextId, dirVars>>
    /\ UNCHANGED svcVars

(* ------------------------- access-control runs ------------------------- *)
\* the store after owner o1 created a lease for tenant t1 on p1, tenant t2
\* reported a complaint about p2 and asked for a repair there
InitAccess ==
    /\ leases = [x \in {1} |-> NewLease("t1", "p1", 1, 2)]
    /\ tenantActive = [t \in Tenants |-> TRUE]
    /\ payments = NoRows
    /\ receipts = NoRows
    /\ complaints = [x \in {1} |-> [propertyId |-> "p2", tenantId |-> "t2", status |-> "OPEN"]]
    /\ maintenance = [x \in {1} |-> [propertyId |-> "p2", status |-> "OPEN",
                                      requestedById |-> "uTenant2",
                                      assignedToId |-> Null]]
    /\ now = 1
    /\ req = [r \in Slots |-> Idle]
    /\ nextId = [lease |-> 2, payment |-> 1, receipt |-> 1]
    /\ SeedDirectory

\* every kind of caller, one request at a time
NextAccess ==
    \/ \E u \in Users, t \in Tenants, p \in Properties, d \in DateRanges :
          CreateLeaseRead(1, u, t, p, d[1], d[2])
    \/ CreateLeaseCheck(1)
    \/ CreateLeaseInsert(1)
    \/ CreateLeaseTenant(1)
    \/ \E u \in Users, t \in Tenants, l \in 1..MaxLeases, a \in Amounts, d \in DueDates :
          CreatePaymentRead(1, u, t, l, a, d)
    \/ CreatePaymentInsert(1)
    \/ \E u \in Users, id \in 1..MaxPayments, in \in MarkInputs : MarkPaidRead(1, u, id, in)
    \/ MarkPaidUpdate(1)
    \/ MarkPaidReceipt(1)
    \/ \E u \in Users, id \in 1..MaxPayments : GetPaymentById(1, u, id)
    \/ \E u \in Users, q \in Queries : GetPayments(1, u, q)
    \/ \E u \in Users, id \in 1..MaxPayments : GetPaymentReceipt(1, u, id)
    \/ \E u \in Users, q \in Queries : GetLeases(1, u, q)
    \/ \E u \in Users, id \in 1..MaxLeases : GetLeaseById(1, u, id)
    \/ \E u \in Users, id \in {1}, st \in ComplaintStatuses :
          UpdateComplaintStatusRead(1, u, id, st)
    \/ UpdateComplaintStatusUpdate(1)
    \/ \E u \in Users, id \in {1}, a \in Assignees : AssignMaintenanceRead(1, u, id, a)
    \/ AssignMaintenanceUpdate(1)

SpecAccess == InitAccess /\ [][NextAccess]_vars

(* --------------------------- the route guards -------------------------- *)
\* an argument of authorize(...): a role string, or an array of role strings
Str(role) == [kind |-> "string", val |-> role]
Arr(list) == [kind |-> "array", val |-> list]

\* authorize('A', 'B'): the rest parameter roles is ['A', 'B']
Spread(list) == [i \in 1..Len(list) |-> Str(list[i])]
\* authorize(['A', 'B']): the rest parameter roles is [['A', 'B']]
Wrapped(list) == <<Arr(list)>>

\* the role-guarded routes and the arguments their authorize call is given
Routes ==
    {[name |-> "GET /admin/dashboard", roles |-> Wrapped(<<"SUPER_ADMIN">>)],
     [name |-> "GET /admin/users", roles |-> Wrapped(<<"SUPER_ADMIN">>)],
     [name |-> "POST /leases", roles |-> Wrapped(<<"SUPER_ADMIN", "OWNER", "MANAGER">>)],
     [name |-> "POST /leases/:id/renew",
      roles |-> Wrapped(<<"SUPER_ADMIN", "OWNER", "MANAGER">>)],
     [name |-> "POST /notifications/bulk",
      roles |-> Wrapped(<<"SUPER_ADMIN", "OWNER", "MANAGER">>)],
     [name |-> "GET /tenants/me", roles |-> Spread(<<"TENANT">>)],
     [name |-> "GET /tenants", roles |-> Spread(<<"SUPER_ADMIN", "OWNER", "MANAGER">>)],
     [name |-> "GET /properties/:id",
      roles |-> Spread(<<"SUPER_ADMIN", "OWNER", "MANAGER", "TENANT">>)],
     [name |-> "DELETE /properties/:id", roles |-> Spread(<<"SUPER_ADMIN", "OWNER">>)]}

RouteNames == {rt.name : rt \in Routes}
RouteRoles(name) == (CHOOSE rt \in Routes : rt.name = name).roles

\* roles.includes(role): strict equality with an element of roles, which no
\* array element has with a string
Includes(roles, role) ==
    \E i \in 1..Len(roles) : roles[i].kind = "string" /\ roles[i].val = role

\* what a request carries as Authorization: nothing, a token that does not
\* verify, or the token of a user
NoUser == MkUser(Undefined, Null, NoManager, Null)
Credentials ==
    {[token |-> "none", user |-> NoUser], [token |-> "bad", user |-> NoUser]}
        \cup {[token |-> "valid", user |-> u] : u \in Users}

\* authenticate: 401 without a token or with one that does not verify,
\* else req.user is set and next() runs the guard
Authenticate(r, route, cred) ==
    /\ Free(r)
    /\ IF cred.token \in {"none", "bad"}
       THEN Begin(r, route, NoUser, NoArgs, "done", NoSnap,
                  Reply(401, "Access denied", {}))
       ELSE Begin(r, route, cred.user, NoArgs, "authorize", NoSnap, NoResp)
    /\ UNCHANGED <<storeVars, now, nextId>>
    /\ UNCHANGED svcVars

\* the middleware authorize(...roles) returns
Authorize(r) ==
    /\ req[r].pc = "authorize"
    /\ IF req[r].user = NoUser
       THEN Finish(r, Reply(401, "Access denied", {}))
       ELSE IF ~Includes(RouteRoles(req[r].op), req[r].user.role)
       THEN Finish(r, Reply(403, "Forbidden", {}))
       ELSE req' = [req EXCEPT ![r].pc = "handler"]
    /\ UNCHANGED <<storeVars, now, nextId>>
    /\ UNCHANGED svcVars

\* the route's handler answers (getDashboardStats: successResponse)
RouteHandler(r) ==
    /\ req[r].pc = "handler"
    /\ Finish(r, Reply(200, "", {}))
    /\ UNCHANGED <<storeVars, now, nextId>>
    /\ UNCHANGED svcVars

NextGuard ==
    \/ \E route \in RouteNames, cred \in Credentials : Authenticate(1, route, cred)
    \/ Authorize(1)
    \/ RouteHandler(1)

SpecGuard == InitAccess /\ [][NextGuard]_vars

(* ------------------------- register, createOwner ----------------------- *)
\* a User row is keyed here by its e-mail address, the unique key the two
\* handlers look it up by; a new Owner row takes the key of its user
Emails == {"e1", "e2", "uTenant1"}

WithRow(table, key, row) ==
    [x \in DOMAIN table \cup {key} |-> IF x = key THEN row ELSE table[x]]

\* POST /auth/register, mounted without authenticate: findUnique by email
RegisterRead(r, email, role) ==
    /\ Free(r)
    /\ LET args == [NoArgs EXCEPT !.userId = email, !.status = role]
       IN IF email \in DOMAIN users
          THEN Begin(r, "register", NoUser, args, "done", NoSnap,
                     Reply(409, "User already exists", {}))
          ELSE Begin(r, "register", NoUser, args, "rg_user", NoSnap, NoResp)
    /\ UNCHANGED <<storeVars, now, nextId>>
    /\ UNCHANGED svcVars

\* await hashPassword, await prisma.user.create({role}); the unique e-mail
\* makes the create throw when the address was taken meanwhile
RegisterUser(r) ==
    /\ req[r].pc = "rg_user"
    /\ LET email == req[r].args.userId
           role == req[r].args.status
       IN IF email \in DOMAIN users
          THEN /\ Finish(r, InternalError)
               /\ UNCHANGED users
          ELSE /\ users' = WithRow(users, email, UserRow(role, Null, Null, Null))
               /\ req' = [req EXCEPT ![r].pc = "rg_owner"]
    /\ UNCHANGED <<leases, tenantActive, payments, receipts, complaints, maintenance,
                   now, nextId, properties, owners, managers>>
    /\ UNCHANGED svcVars

\* if (role === 'OWNER') await prisma.owner.create({userId}); then the login
\* record, the welcome e-mail and the 201 answer
RegisterOwner(r) ==
    /\ req[r].pc = "rg_owner"
    /\ LET email == req[r].args.userId
       IN IF req[r].args.status = "OWNER"
          THEN /\ owners' = WithRow(owners, email, [userId |-> email, companyName |-> ""])
               /\ users' = [users EXCEPT ![email].owner = email]
          ELSE UNCHANGED <<owners, users>>
    /\ Finish(r, Reply(201, "", {}))
    /\ UNCHANGED <<leases, tenantActive, payments, receipts, complaints, maintenance,
                   now, nextId, properties, managers>>
    /\ UNCHANGED svcVars

\* createOwner behind POST /owners (roles listed: SUPER_ADMIN): findUnique
CreateOwnerRead(r, u, email) ==
    /\ Free(r)
    /\ LET args == [NoArgs EXCEPT !.userId = email]
       IN IF email \in DOMAIN users
          THEN Begin(r, "createOwner", u, args, "done", NoSnap,
                     Reply(400, "User already exists", {}))
          ELSE Begin(r, "createOwner", u, args, "co_create", NoSnap, NoResp)
    /\ UNCHANGED <<storeVars, now, nextId>>
    /\ UNCHANGED svcVars

\* await prisma.user.create({role: 'OWNER', owner: {create: ...}}): the user
\* and its owner profile in one statement
CreateOwnerCreate(r) ==
    /\ req[r].pc = "co_create"
    /\ LET email == req[r].args.userId
       IN IF email \in DOMAIN users
          THEN /\ Finish(r, InternalError)
               /\ UNCHANGED <<users, owners>>
          ELSE /\ users' = WithRow(users, email, UserRow("OWNER", Null, email, Null))
               /\ owners' = WithRow(owners, email, [userId |-> email, companyName |-> ""])
               /\ Finish(r, Reply(201, "", {}))
    /\ UNCHANGED <<leases, tenantActive, payments, receipts, complaints, maintenance,
                   now, nextId, properties, managers>>
    /\ UNCHANGED svcVars

\* anyone registers, the administrator creates owners
NextAccount ==
    \/ \E email \in Emails, role \in Roles : RegisterRead(1, email, role)
    \/ RegisterUser(1)
    \/ RegisterOwner(1)
    \/ \E email \in Emails : CreateOwnerRead(1, Admin, email)
    \/ CreateOwnerCreate(1)

SpecAccount == InitDeleteRace /\ [][NextAccount]_vars

(* ------------------------ getOwnerById, updateOwner -------------------- *)
\* the :id of the owner routes: the two owners and an id of no row
OwnerIds == Owners \cup {"o9"}
CompanyNames == {"", "Acme"}

\* if (req.user.role === 'OWNER' && req.user.owner.id !== id) 403, the one
\* permission check of getOwnerById and of updateOwner
OwnerAccess(u, id) ==
    IF u.role = "OWNER" /\ u.owner # id THEN Reply(403, "Forbidden", {}) ELSE NoResp

\* GET /owners/:id (authenticate only): the check, await prisma.user.findFirst
GetOwnerById(r, u, id) ==
    /\ Free(r)
    /\ LET args == [NoArgs EXCEPT !.userId = id]
           resp == IF OwnerAccess(u, id) # NoResp THEN OwnerAccess(u, id)
                   ELSE IF id \notin DOMAIN owners THEN Reply(404, "Owner not found", {})
                   ELSE Reply(200, "", {id})
       IN Begin(r, "getOwnerById", u, args, "done", NoSnap, resp)
    /\ UNCHANGED <<storeVars, now, nextId, svcVars>>

\* PUT /owners/:id (authenticate only): the check, await prisma.owner.findUnique
UpdateOwnerRead(r, u, id, companyName) ==
    /\ Free(r)
    /\ LET args == [NoArgs EXCEPT !.userId = id, !.firstName = companyName]
           resp == IF OwnerAccess(u, id) # NoResp THEN OwnerAccess(u, id)
                   ELSE IF id \notin DOMAIN owners THEN Reply(404, "Owner not found", {})
                   ELSE NoResp
       IN IF resp # NoResp
          THEN Begin(r, "updateOwner", u, args, "done", NoSnap, resp)
          ELSE Begin(r, "updateOwner", u, args, "uo_update", NoSnap, NoResp)
    /\ UNCHANGED <<storeVars, now, nextId, svcVars>>

\* await prisma.owner.update({where: {id}, data: {companyName, phone, address}})
UpdateOwnerUpdate(r) ==
    /\ req[r].pc = "uo_update"
    /\ LET id == req[r].args.userId
       IN IF id \notin DOMAIN owners
          THEN /\ Finish(r, InternalError)
               /\ UNCHANGED owners
          ELSE /\ owners' = [owners EXCEPT ![id].companyName = req[r].args.firstName]
               /\ Finish(r, Reply(200, "", {}))
    /\ UNCHANGED <<leases, tenantActive, payments, receipts, complaints, maintenance,
                   now, nextId, properties, users, managers, svcVars>>

NextOwner ==
    \/ \E u \in Users, id \in OwnerIds : GetOwnerById(1, u, id)
    \/ \E u \in Users, id \in OwnerIds, c \in CompanyNames : UpdateOwnerRead(1, u, id, c)
    \/ UpdateOwnerUpdate(1)

SpecOwner == InitDeleteRace /\ [][NextOwner]_vars

(* ---------------------- deactivateTenant, updateTenant ----------------- *)
\* Tenant.userId
TenantUser(t) == IF t = "t1" THEN "uTenant1" ELSE "uTenant2"

\* req.body of updateTenant as far as it reaches Tenant.isActive: the field
\* absent, true or false
TenantBodies == {"absent", "true", "false"}

DeactivateTenantChecks(u, id) ==
    IF id \notin Tenants THEN Reply(404, "Tenant not found", {})
    ELSE IF StrictOwnerId(u) = TypeError THEN InternalError
    ELSE IF PropertyOwner(TenantProperty(id)) # StrictOwnerId(u) THEN Reply(403, "Forbidden", {})
    ELSE IF \E l \in DOMAIN leases : leases[l].tenantId = id /\ leases[l].status = "ACTIVE"
         THEN Reply(400, "Cannot deactivate tenant", {})
    ELSE NoResp

\* await prisma.tenant.findUnique({include: {leases: ACTIVE}}), the checks
DeactivateTenantRead(r, u, id) ==
    /\ Free(r)
    /\ LET args == [NoArgs EXCEPT !.tenantId = id]
           resp == DeactivateTenantChecks(u, id)
       IN IF resp # NoResp
          THEN Begin(r, "deactivateTenant", u, args, "done", NoSnap, resp)
          ELSE Begin(r, "deactivateTenant", u, args, "dt_update", NoSnap, NoResp)
    /\ UNCHANGED <<storeVars, now, nextId, svcVars>>

\* await prisma.$transaction([tenant.update({isActive: false}),
\* user.update({isActive: false})])
DeactivateTenantUpdate(r) ==
    /\ req[r].pc = "dt_update"
    /\ LET id == req[r].args.tenantId
       IN IF TenantUser(id) \notin DOMAIN users
          THEN /\ Finish(r, InternalError)
               /\ UNCHANGED <<tenantActive, users>>
          ELSE /\ tenantActive' = [tenantActive EXCEPT ![id] = FALSE]
               /\ users' = [users EXCEPT ![TenantUser(id)].isActive = FALSE]
               /\ Finish(r, Reply(200, "", {}))
    /\ UNCHANGED <<leases, payments, receipts, complaints, maintenance, now, nextId,
                   properties, owners, managers, svcVars>>

UpdateTenantChecks(u, id) ==
    IF id \notin Tenants THEN Reply(404, "Tenant not found", {})
    ELSE IF u.role = "TENANT" /\ u.tenant # id THEN Reply(403, "Forbidden", {})
    ELSE IF u.role = "OWNER" /\ PropertyOwner(TenantProperty(id)) # u.owner
         THEN Reply(403, "Forbidden", {})
    ELSE IF u.role = "MANAGER" /\ u.manager.ownerId = Null THEN InternalError
    ELSE IF u.role = "MANAGER" /\ PropertyOwner(TenantProperty(id)) # u.manager.ownerId
         THEN Reply(403, "Forbidden", {})
    ELSE NoResp

\* await prisma.tenant.findUnique, the checks
UpdateTenantRead(r, u, id, body) ==
    /\ Free(r)
    /\ LET args == [NoArgs EXCEPT !.tenantId = id, !.status = body]
           resp == UpdateTenantChecks(u, id)
       IN IF resp # NoResp
          THEN Begin(r, "updateTenant", u, args, "done", NoSnap, resp)
          ELSE Begin(r, "updateTenant", u, args, "ut_update", NoSnap, NoResp)
    /\ UNCHANGED <<storeVars, now, nextId, svcVars>>

\* await prisma.tenant.update({where: {id}, data: updateData}): the whole
\* request body is the data
UpdateTenantUpdate(r) ==
    /\ req[r].pc = "ut_update"
    /\ LET id == req[r].args.tenantId
           body == req[r].args.status
       IN tenantActive' = IF body = "absent" THEN tenantActive
                          ELSE [tenantActive EXCEPT ![id] = (body = "true")]
    /\ Finish(r, Reply(200, "", {}))
    /\ UNCHANGED <<leases, payments, receipts, complaints, maintenance, now, nextId,
                   dirVars, svcVars>>

\* who acts on tenant t1 of property p1: its owner and the tenant
TenantCallers == {OwnerA, Tenant1}

\* the handlers that write Tenant.isActive, two requests at a time
NextTenant ==
    \/ \E r \in Slots, d \in DateRanges : CreateLeaseRead(r, OwnerA, "t1", "p1", d[1], d[2])
    \/ \E r \in Slots : CreateLeaseCheck(r)
    \/ \E r \in Slots : CreateLeaseInsert(r)
    \/ \E r \in Slots : CreateLeaseTenant(r)
    \/ \E r \in Slots, id \in 1..MaxLeases, x \in Reasons :
          TerminateLeaseRead(r, OwnerA, id, x)
    \/ \E r \in Slots : TerminateLeaseUpdate(r)
    \/ \E r \in Slots : TerminateLeaseTenant(r)
    \/ \E r \in Slots : DeactivateTenantRead(r, OwnerA, "t1")
    \/ \E r \in Slots : DeactivateTenantUpdate(r)
    \/ \E r \in Slots, u \in TenantCallers, b \in TenantBodies :
          UpdateTenantRead(r, u, "t1", b)
    \/ \E r \in Slots : UpdateTenantUpdate(r)

SpecTenant == InitLease /\ [][NextTenant]_vars

(* ----------------- cronJobs.js: generateMonthlyReports ----------------- *)
\* the orders in which prisma.owner.findMany (no orderBy) may return the rows
OwnerOrders ==
    {o \in [1..Cardinality(DOMAIN owners) -> DOMAIN owners] :
        \A i, j \in DOMAIN o : i # j => o[i] # o[j]}

\* totalProperties and occupiedProperties of the owner as findMany read them
ReportRow(ownerId) ==
    LET mine == {p \in properties : PropertyOwner(p) = ownerId}
        occupied == {p \in mine : \E id \in DOMAIN leases :
                        leases[id].propertyId = p /\ leases[id].status = "ACTIVE"}
    IN [ownerId |-> ownerId, totalProperties |-> Cardinality(mine),
        occupiedProperties |-> Cardinality(occupied)]

\* the schedule fires: await prisma.owner.findMany({include: {properties}})
ReportStart ==
    /\ job.pc = "idle"
    /\ \E o \in OwnerOrders :
          job' = [pc |-> IF o = <<>> THEN "done" ELSE "loop",
                  owners |-> [i \in DOMAIN o |-> ReportRow(o[i])],
                  failed |-> {}]
    /\ UNCHANGED <<leases, tenantActive, payments, receipts, complaints, maintenance,
                   now, req, nextId, dirVars, analytics, flagVars>>

\* one turn of for (const owner of owners): await prisma.analytics.create.
\* The loop stands inside the one try block of the job: a throw leaves the
\* loop for the catch, which logs it
ReportOwner ==
    /\ job.pc = "loop"
    /\ LET row == Head(job.owners)
           rest == Tail(job.owners)
       IN \/ /\ analytics' = Append(analytics, row)
             /\ job' = [job EXCEPT !.owners = rest,
                                   !.pc = IF rest = <<>> THEN "done" ELSE "loop"]
          \/ /\ job' = [job EXCEPT !.pc = "done", !.failed = {row.ownerId}]
             /\ UNCHANGED analytics
    /\ UNCHANGED <<leases, tenantActive, payments, receipts, complaints, maintenance,
                   now, req, nextId, dirVars, flagVars>>

\* the report job next to the requests that create owners
NextReport ==
    \/ ReportStart
    \/ ReportOwner
    \/ \E email \in Emails, role \in Roles : RegisterRead(1, email, role)
    \/ RegisterUser(1)
    \/ RegisterOwner(1)
    \/ \E email \in Emails : CreateOwnerRead(1, Admin, email)
    \/ CreateOwnerCreate(1)

SpecReport == InitDeleteRace /\ [][NextReport]_vars

(* ------------------- featureFlags.js: FeatureFlagService --------------- *)
\* updatedFlags[flag.name] = flag.enabled over DEFAULT_FLAGS
FlagOf(row) == IF row = "none" THEN DefaultFlag ELSE row = "on"

CallFree(c) == calls[c].pc \in {"idle", "done"}

\* the frame of the service's steps
FlagFrame ==
    UNCHANGED <<leases, tenantActive, payments, receipts, complaints, maintenance,
                now, req, nextId, dirVars, analytics, job>>

\* isEnabled(f) without userId and userRole, up to the first await of
\* loadFlags: a fresh cache answers at once, else findMany is sent
IsEnabledStart(c) ==
    /\ CallFree(c)
    /\ IF lastUpdated # 0 /\ now - lastUpdated < CacheTTL
       THEN calls' = [calls EXCEPT ![c] = [NoCall EXCEPT !.op = "isEnabled", !.pc = "done",
                                                         !.result = flagCache]]
       ELSE calls' = [calls EXCEPT ![c] = [NoCall EXCEPT !.op = "isEnabled", !.pc = "ld_read",
                                                         !.readAt = now]]
    /\ UNCHANGED <<flagDb, flagCache, lastUpdated>>
    /\ FlagFrame

\* the database runs prisma.featureFlag.findMany; when it throws, the catch
\* of loadFlags returns the flags the service holds
LoadRead(c) ==
    /\ calls[c].pc = "ld_read"
    /\ \/ calls' = [calls EXCEPT ![c].pc = "ld_write", ![c].read = flagDb]
       \/ calls' = [calls EXCEPT ![c].pc = "done", ![c].result = flagCache]
    /\ UNCHANGED <<flagDb, flagCache, lastUpdated>>
    /\ FlagFrame

\* loadFlags after its await: this.flags = updatedFlags, this.lastUpdated =
\* now (the value taken before the await); isEnabled returns this.flags[f]
LoadWrite(c) ==
    /\ calls[c].pc = "ld_write"
    /\ flagCache' = FlagOf(calls[c].read)
    /\ lastUpdated' = calls[c].readAt
    /\ calls' = [calls EXCEPT ![c].pc = "done", ![c].result = FlagOf(calls[c].read)]
    /\ UNCHANGED flagDb
    /\ FlagFrame

\* updateFlag(f, enabled): prisma.featureFlag.upsert is sent
UpdateFlagStart(c, enabled) ==
    /\ CallFree(c)
    /\ calls' = [calls EXCEPT ![c] = [NoCall EXCEPT !.op = "updateFlag", !.pc = "up_upsert",
                                                     !.value = enabled]]
    /\ UNCHANGED <<flagDb, flagCache, lastUpdated>>
    /\ FlagFrame

\* the database runs the upsert; when it throws, updateFlag returns false
UpdateFlagUpsert(c) ==
    /\ calls[c].pc = "up_upsert"
    /\ \/ /\ flagDb' = IF calls[c].value THEN "on" ELSE "off"
          /\ calls' = [calls EXCEPT ![c].pc = "up_clear"]
       \/ /\ calls' = [calls EXCEPT ![c].pc = "done", ![c].result = FALSE]
          /\ UNCHANGED flagDb
    /\ UNCHANGED <<flagCache, lastUpdated>>
    /\ FlagFrame

\* updateFlag after its await: this.lastUpdated = null, return true
UpdateFlagClear(c) ==
    /\ calls[c].pc = "up_clear"
    /\ lastUpdated' = 0
    /\ calls' = [calls EXCEPT ![c].pc = "done", ![c].result = TRUE]
    /\ UNCHANGED <<flagDb, flagCache>>
    /\ FlagFrame

NextFlags ==
    \/ \E c \in Slots : IsEnabledStart(c)
    \/ \E c \in Slots : LoadRead(c)
    \/ \E c \in Slots : LoadWrite(c)
    \/ \E c \in Slots, v \in BOOLEAN : UpdateFlagStart(c, v)
    \/ \E c \in Slots : UpdateFlagUpsert(c)
    \/ \E c \in Slots : UpdateFlagClear(c)
    \/ Tick

SpecFlags == InitDeleteRace /\ [][NextFlags]_vars

(* ------------------- getPaymentAnalytics: the Number sum --------------- *)
\* A JavaScript Number is an IEEE 754 binary64. The numbers here are 0 or at
\* least 16, so each is a whole multiple of 2^-48; one is written as that
\* multiple in three limbs <<h, m, l>>: (h * 2^40 + m * 2^20 + l) * 2^-48,
\* with m and l below 2^20 and h below 2^26.
Mantissa == 53
Limb == 2^20
Zero == <<0, 0, 0>>

\* the number of binary digits of h
BitLen(h) == CHOOSE k \in 0..30 : h < 2^k /\ (k > 0 => h >= 2^(k - 1))

\* carries propagated upwards
Carry(h, m, l) ==
    LET m1 == m + (l \div Limb)
    IN <<h + (m1 \div Limb), m1 % Limb, l % Limb>>

\* round x + (r / den) * 2^-48 to Mantissa significant bits, to nearest,
\* ties to even (0 <= r < den)
RoundNumber(x, r, den) ==
    LET len == 40 + BitLen(x[1])
        s == IF len > Mantissa THEN len - Mantissa ELSE 0
        low == x[3] % (2^s)
        kept == (x[3] \div (2^s)) % 2
        f == 2 * (low * den + r)
        d == (2^s) * den
        up == f > d \/ (f = d /\ kept = 1)
    IN Carry(x[1], x[2], x[3] - low + (IF up THEN 2^s ELSE 0))

\* a + b of two Numbers
FloatAdd(a, b) == RoundNumber(Carry(a[1] + b[1], a[2] + b[2], a[3] + b[3]), 0, 1)

\* the Number nearest to num / den (0, or at least 16; den at most 100)
NearestNumber(num, den) ==
    LET h == num * 256
        t1 == (h % den) * Limb
        t2 == (t1 % den) * Limb
    IN RoundNumber(<<h \div den, t1 \div den, t2 \div den>>, t2 % den, den)

\* Number(p.amount) of a Decimal(10, 2) amount, kept here in hundredths
NumberOfAmount(amount) == NearestNumber(amount, 100)

\* buildScopeWhereClause(req.user) applied to payment id
InAnalyticsScope(u, id) ==
    RoleOwnerFilter(u) # "" => PaymentOwner(payments[id]) = RoleOwnerFilter(u)

\* payments.reduce((sum, p) => sum + Number(p.amount), 0) over the rows
\* 1..k that are in scope
RECURSIVE TotalAmount(_, _)
TotalAmount(u, k) ==
    IF k = 0 THEN Zero
    ELSE IF k \in DOMAIN payments /\ InAnalyticsScope(u, k)
    THEN FloatAdd(TotalAmount(u, k - 1), NumberOfAmount(payments[k].amount))
    ELSE TotalAmount(u, k - 1)

\* await prisma.payment.findMany, the sum, successResponse
GetPaymentAnalytics(r, u) ==
    /\ Free(r)
    /\ Begin(r, "getPaymentAnalytics", u, NoArgs, "done", NoSnap,
             [Reply(200, "", {id \in DOMAIN payments : InAnalyticsScope(u, id)})
                 EXCEPT !.total = TotalAmount(u, nextId.payment - 1)])
    /\ UNCHANGED <<storeVars, now, nextId>>
    /\ UNCHANGED svcVars

\* n payments of 19.99 each, all for one of the two leases
InitAnalytics ==
    /\ leases = SeedLeases
    /\ tenantActive = [t \in Tenants |-> TRUE]
    /\ \E n \in 0..MaxSummed, l \in DOMAIN SeedLeases :
          /\ payments = [x \in 1..n |-> NewPayment(SeedLeases[l].tenantId, l, 1999, 1, Null)]
          /\ nextId = [lease |-> 3, payment |-> n + 1, receipt |-> 1]
    /\ receipts = NoRows
    /\ complaints = NoRows
    /\ maintenance = NoRows
    /\ now = 1
    /\ req = [r \in Slots |-> Idle]
    /\ SeedDirectory

NextAnalytics == \E u \in Users : GetPaymentAnalytics(1, u)

SpecAnalytics == InitAnalytics /\ [][NextAnalytics]_vars

(* ===================== payment-lifecycle properties ==================== *)
ReceiptsOf(id) == {x \in DOMAIN receipts : receipts[x].paymentId = id}

Settled(r, id) ==
    /\ req[r].op = "markPaymentAsPaid"
    /\ req[r].args.id = id
    /\ req[r].pc = "done"
    /\ req[r].resp.code = 200

\* C1: of two overlapping mark-as-paid requests on one payment at most one is
\* answered as a success (the other gets the already-paid rejection), and
\* the payment never has more than one Receipt.
C1_ExactlyOneSettles ==
    \A id \in DOMAIN payments :
        /\ ~(Settled(1, id) /\ Settled(2, id))
        /\ Cardinality(ReceiptsOf(id)) <= 1

\* C25: after every step each Receipt refers to a Payment that is PAID, and
\* no step changes or removes a Receipt that exists.
C25_ReceiptOfPaidPayment ==
    [][/\ \A x \in DOMAIN receipts' :
             /\ receipts'[x].paymentId \in DOMAIN payments'
             /\ payments'[receipts'[x].paymentId].status = "PAID"
       /\ \A x \in DOMAIN receipts :
             x \in DOMAIN receipts' /\ receipts'[x] = receipts[x]]_vars

\* C2: no payment goes from PAID to PENDING or OVERDUE, and a CANCELLED or
\* REFUNDED payment never changes status.
C2_StatusMonotonic ==
    [][\A id \in DOMAIN payments :
          /\ payments[id].status = "PAID" =>
                payments'[id].status \notin {"PENDING", "OVERDUE"}
          /\ payments[id].status \in {"CANCELLED", "REFUNDED"} =>
                payments'[id].status = payments[id].status]_vars

\* C20: a payment goes from PENDING to OVERDUE only in a step of the
\* scheduled sweep: never in a step of a request handler.
C20_OnlySweepMarksOverdue ==
    [][(\E id \in DOMAIN payments :
           payments[id].status = "PENDING" /\ payments'[id].status = "OVERDUE")
        => (CheckOverduePayments /\ req' = req)]_vars

\* a mark-as-paid request for payment id arrives in slot r in this step
MarkPaidArrives(r, id) ==
    /\ req[r].pc \in {"idle", "done"}
    /\ req'[r] # req[r]
    /\ req'[r].op = "markPaymentAsPaid"
    /\ req'[r].args.id = id

\* C10: a mark-as-paid request that finds the payment PAID ends at once with
\* the "Payment already paid" rejection and writes neither the payment nor
\* a receipt.
C10_PaidIsRejected ==
    [][\A r \in Slots : \A id \in DOMAIN payments :
          (MarkPaidArrives(r, id) /\ payments[id].status = "PAID") =>
              /\ req'[r].pc = "done"
              /\ req'[r].resp = Reply(400, "Payment already paid", {})
              /\ payments' = payments
              /\ receipts' = receipts]_vars

C10_Witness ==
    \E r \in Slots : \E id \in DOMAIN payments :
        /\ payments[id].status = "PAID"
        /\ req[r].op = "markPaymentAsPaid"
        /\ req[r].args.id = id
        /\ req[r].pc = "done"
        /\ req[r].resp = Reply(400, "Payment already paid", {})

(* ======================= lease-lifecycle properties ==================== *)
ActiveLeases == {id \in DOMAIN leases : leases[id].status = "ACTIVE"}

\* [s1, e1) and [s2, e2) overlap
Overlap(a, b) == a.startDate < b.endDate /\ b.startDate < a.endDate

\* C3: two distinct ACTIVE leases on one property never have overlapping
\* [startDate, endDate) ranges.
C3_NoOverlap ==
    \A a, b \in ActiveLeases :
        (a # b /\ leases[a].propertyId = leases[b].propertyId) =>
            ~Overlap(leases[a], leases[b])

\* C4: every tenant holds at most one ACTIVE lease.
C4_OneActiveLease ==
    \A t \in Tenants :
        Cardinality({id \in ActiveLeases : leases[id].tenantId = t}) <= 1

\* C21: createLease, for a tenant with no ACTIVE lease, goes on to create the
\* lease exactly when no ACTIVE lease on the property overlaps the new range
\* by the closed-open rule; a new lease that starts on the endDate of an
\* existing one is accepted.
C21_ClosedOpenOverlap ==
    [][\A r \in Slots :
          (req[r].pc = "cl_check" /\ req'[r].pc # "cl_check") =>
              LET a == req[r].args
                  new == [startDate |-> a.date1, endDate |-> a.date2]
                  tenantBusy == \E id \in ActiveLeases : leases[id].tenantId = a.tenantId
                  overlaps == \E id \in ActiveLeases :
                                 /\ leases[id].propertyId = a.propertyId
                                 /\ Overlap(leases[id], new)
              IN ~tenantBusy => (req'[r].pc = "cl_create" <=> ~overlaps)]_vars

\* request r is answered in this step, its mutation written in this step or
\* in an earlier one
AnsweredAfterCommit(r) ==
    /\ req'[r].pc = "done"
    /\ \/ req[r].pc \in {"cl_tenant", "tl_tenant", "mp_receipt"}
       \/ req[r].pc = "rl_update" /\ leases' # leases
       \/ req[r].pc = "cp_create" /\ payments' # payments

\* C22: a primary mutation that was committed is answered as a success,
\* whether or not the notification or the receipt that follows it fails.
C22_SideEffectsSwallowed ==
    [][\A r \in Slots :
          AnsweredAfterCommit(r) => req'[r].resp.code \in {200, 201}]_vars

\* C26: every Lease is for the Property its Tenant belongs to.
C26_LeaseOnTenantsProperty ==
    \A id \in DOMAIN leases :
        TenantProperty(leases[id].tenantId) = leases[id].propertyId

\* the lease a createLease request r has inserted, 0 before the insert
CreatedLease(r) == IF req[r].op = "createLease" THEN req[r].args.id ELSE 0

\* C19: of two createLease requests in flight together for one property, for
\* different tenants and with overlapping date ranges, at most one creates
\* its lease.
C19_OneCreateWins ==
    \A r1, r2 \in Slots :
        (r1 # r2 /\ CreatedLease(r1) \in ActiveLeases /\ CreatedLease(r2) \in ActiveLeases) =>
            LET a == leases[CreatedLease(r1)]
                b == leases[CreatedLease(r2)]
            IN ~(a.propertyId = b.propertyId /\ a.tenantId # b.tenantId /\ Overlap(a, b))

(* ======================= access-control properties ===================== *)
PaymentOps == {"getPaymentById", "getPayments", "getPaymentReceipt",
               "createPayment", "markPaymentAsPaid"}
LeaseOps == {"getLeases", "getLeaseById", "createLease"}

\* request r has been answered with a 2xx response
Succeeded(r) == req[r].pc = "done" /\ req[r].resp.code \in {200, 201}

\* the ownerId of the property behind each row request r returned or wrote
TouchedOwners(r) ==
    LET op == req[r].op
        ids == req[r].resp.ids
    IN IF op \in PaymentOps
       THEN {PaymentOwner(payments[id]) : id \in ids \cap DOMAIN payments}
       ELSE IF op \in LeaseOps
       THEN {PropertyOwner(leases[id].propertyId) : id \in ids \cap DOMAIN leases}
       ELSE IF op = "updateComplaintStatus"
       THEN {PropertyOwner(complaints[id].propertyId) : id \in ids}
       ELSE IF op = "assignMaintenanceRequest"
       THEN {PropertyOwner(maintenance[id].propertyId) : id \in ids}
       ELSE {}

\* C5: whatever an OWNER caller's successful request returned or modified
\* belongs to a property of that owner.
C5_OwnerIsolation ==
    \A r \in Slots :
        (Succeeded(r) /\ req[r].user.role = "OWNER") =>
            TouchedOwners(r) \subseteq {req[r].user.owner}

ReadOps == {"getPaymentById", "getPayments", "getLeases", "getLeaseById"}

\* the tenantId of each row a read returned
ReturnedTenants(r) ==
    IF req[r].op \in {"getPaymentById", "getPayments"}
    THEN {payments[id].tenantId : id \in req[r].resp.ids \cap DOMAIN payments}
    ELSE {leases[id].tenantId : id \in req[r].resp.ids \cap DOMAIN leases}

\* C6: a TENANT caller's read of payments or leases, by list with any query
\* or by id, returns only rows of the caller's own tenantId.
C6_TenantIsolation ==
    \A r \in Slots :
        (Succeeded(r) /\ req[r].user.role = "TENANT" /\ req[r].op \in ReadOps) =>
            ReturnedTenants(r) \subseteq {req[r].user.tenant}

\* request r is a mark-as-paid that passed the handler's checks
SettlementAllowed(r) ==
    /\ req[r].op = "markPaymentAsPaid"
    /\ \/ req[r].pc \in {"mp_update", "mp_receipt"}
       \/ Succeeded(r)

\* C7: a MANAGER whose permissions lack approvePayments = true never gets a
\* manual settlement through, and the OWNER of the property is never
\* answered Forbidden for one.
C7_SettlementNeedsPermission ==
    \A r \in Slots :
        /\ (req[r].user.role = "MANAGER" /\ ~req[r].user.manager.approvePayments) =>
               ~SettlementAllowed(r)
        /\ (/\ req[r].user.role = "OWNER"
            /\ req[r].op = "markPaymentAsPaid"
            /\ req[r].pc = "done"
            /\ req[r].args.id \in DOMAIN payments
            /\ PaymentOwner(payments[req[r].args.id]) = req[r].user.owner) =>
               req[r].resp.code # 403

\* C8: a SUPER_ADMIN caller is never refused: no request of one is answered
\* Forbidden, and createPayment and markPaymentAsPaid, which answer 500 only
\* when the handler throws, never answer it 500.
C8_AdminNeverDenied ==
    \A r \in Slots :
        (req[r].pc = "done" /\ req[r].user.role = "SUPER_ADMIN") =>
            /\ req[r].resp.code # 403
            /\ req[r].op \in {"createPayment", "markPaymentAsPaid"} =>
                   req[r].resp.code # 500

\* the role names a route's authorize call is written with
ListedRoles(name) ==
    LET roles == RouteRoles(name)
    IN UNION {IF roles[i].kind = "string" THEN {roles[i].val}
              ELSE {roles[i].val[j] : j \in 1..Len(roles[i].val)} : i \in 1..Len(roles)}

\* request r went past the guard of its route
Admitted(r) ==
    \/ req[r].pc = "handler"
    \/ req[r].pc = "done" /\ req[r].resp.code = 200

\* C9: the guard of a route admits an authenticated caller exactly when the
\* caller's role is one of the roles the route lists, and answers 403
\* otherwise; so a SUPER_ADMIN reaches the admin dashboard.
C9_GuardAdmitsListedRoles ==
    \A r \in Slots :
        (req[r].op \in RouteNames /\ req[r].user # NoUser) =>
            /\ Admitted(r) => req[r].user.role \in ListedRoles(req[r].op)
            /\ (req[r].pc = "done" /\ req[r].resp.code = 403) =>
                   req[r].user.role \notin ListedRoles(req[r].op)

(* ========================== deletion properties ======================== *)
\* C11: no step removes a Payment row whose status is PAID, whether by a
\* direct delete or by the cascade of deleting a user, an owner, a property
\* or a lease.
C11_PaidNeverDeleted ==
    [][\A id \in DOMAIN payments :
          payments[id].status = "PAID" => id \in DOMAIN payments']_vars

(* ============================ sweep properties ========================= *)
\* C12: a run of the overdue sweep turns exactly the payments that are PENDING
\* with dueDate < now to OVERDUE and leaves every other payment as it was;
\* after it no payment is left for a second run to change.
C12_SweepExact ==
    [][CheckOverduePayments =>
          /\ DOMAIN payments' = DOMAIN payments
          /\ \A id \in DOMAIN payments :
                IF payments[id].status = "PENDING" /\ payments[id].dueDate < now
                THEN payments'[id] = [payments[id] EXCEPT !.status = "OVERDUE"]
                ELSE payments'[id] = payments[id]
          /\ \A id \in DOMAIN payments' :
                ~(payments'[id].status = "PENDING" /\ payments'[id].dueDate < now')]_vars

\* the sweep has run where one payment was due and another was not
C12_Witness ==
    \E a, b \in DOMAIN payments :
        /\ payments[a].status = "OVERDUE" /\ payments[a].dueDate < now
        /\ payments[b].status = "PENDING" /\ payments[b].dueDate >= now

\* request r's deleteLease is answered in this step
DeleteLeaseAnswers(r) ==
    /\ req[r].op = "deleteLease"
    /\ req[r].pc = "dl_delete"
    /\ req'[r].pc = "done"

\* C13: deleteLease removes a lease only when no payment refers to it, so no
\* Payment row disappears in a step of deleteLease, also when a createPayment
\* for the lease comes between its check and its delete.
C13_DeleteLeaseKeepsPayments ==
    [][\A r \in Slots : DeleteLeaseAnswers(r) =>
          /\ \A id \in DOMAIN leases \ DOMAIN leases' : PaymentsOfLease(id) = {}
          /\ DOMAIN payments \subseteq DOMAIN payments']_vars

(* ===================== termination and renewal properties ============== *)
\* a terminateLease request for lease id arrives in slot r in this step
TerminateArrives(r, id) ==
    /\ req[r].pc \in {"idle", "done"}
    /\ req'[r] # req[r]
    /\ req'[r].op = "terminateLease"
    /\ req'[r].args.id = id

C15_RenewExtends ==
    [][\A r \in Slots :
          (/\ req[r].op = "renewLease"
           /\ req[r].pc = "rl_update"
           /\ req'[r].pc = "done"
           /\ req'[r].resp.code = 200) =>
              /\ req[r].snap.lease.status = "ACTIVE"
              /\ leases'[req[r].args.id].endDate > leases[req[r].args.id].endDate
              /\ leases'[req[r].args.id].status = "ACTIVE"
              /\ payments' = payments]_vars

AdminStep(r) ==
    /\ req'[r] # req[r]
    /\ req[r].pc \notin {"idle", "done"}
    /\ req[r].user.role = "SUPER_ADMIN"

\* C17: an Owner record, and a User with role OWNER, appear only in a step
\* of a request made by an authenticated SUPER_ADMIN.
C17_OwnersByAdminOnly ==
    [][(\/ DOMAIN owners' \ DOMAIN owners # {}
        \/ \E id \in DOMAIN users' \ DOMAIN users : users'[id].role = "OWNER") =>
           \E r \in Slots : AdminStep(r)]_vars

(* ========================= aggregation properties ====================== *)
RECURSIVE SumOfHundredths(_)
SumOfHundredths(ids) ==
    IF ids = {} THEN 0
    ELSE LET id == CHOOSE x \in ids : TRUE
         IN payments[id].amount + SumOfHundredths(ids \ {id})

\* C18: the total the payment analytics report is the sum of the amounts: for
\* n payments of 19.99 it is the number n x 19.99, the n x 1999 hundredths.
C18_ExactTotal ==
    \A r \in Slots :
        (req[r].op = "getPaymentAnalytics" /\ req[r].pc = "done") =>
            req[r].resp.total = NearestNumber(SumOfHundredths(req[r].resp.ids), 100)

(* ========================== tenant properties ========================== *)
\* C29: whenever no request is in progress, a Tenant that holds an ACTIVE
\* Lease has isActive true.
C29_ActiveLeaseActiveTenant ==
    (\A r \in Slots : req[r].pc \in {"idle", "done"}) =>
        \A id \in ActiveLeases : tenantActive[leases[id].tenantId]

(* ======================== feature-flag properties ====================== *)
\* C30: while no updateFlag is in progress, a cache that is fresh holds the
\* value of the flag in the database, so isEnabled returns the value of the
\* last update: the cache never keeps a pre-update value with a fresh
\* timestamp.
C30_FreshCacheIsCurrent ==
    (/\ \A c \in Slots : calls[c].op = "updateFlag" => calls[c].pc = "done"
     /\ lastUpdated # 0
     /\ now - lastUpdated < CacheTTL)
        => flagCache = FlagOf(flagDb)

(* ========================= response properties ========================= *)
\* payment id lies outside the ownership scope of the OWNER or MANAGER u
OutOfScope(u, id) ==
    /\ u.role \in {"OWNER", "MANAGER"}
    /\ PaymentOwner(payments[id]) # RoleOwnerFilter(u)

\* C28: markPaymentAsPaid and getPaymentReceipt answer Forbidden to an OWNER
\* or MANAGER whose scope excludes the payment, whatever the status of the
\* payment is.
C28_ForbiddenWhateverStatus ==
    [][\A r \in Slots, id \in DOMAIN payments :
          (/\ req[r].pc \in {"idle", "done"}
           /\ req'[r] # req[r]
           /\ req'[r].op \in {"markPaymentAsPaid", "getPaymentReceipt"}
           /\ req'[r].args.id = id
           /\ OutOfScope(req'[r].user, id))
              => req'[r].resp = Reply(403, "Forbidden", {})]_vars

(* =========================== profile properties ======================= *)
\* the kinds of profile attached to a User row
ProfileKinds(row) ==
    {k \in {"OWNER", "MANAGER", "TENANT"} :
        \/ k = "OWNER" /\ row.owner # Null
        \/ k = "MANAGER" /\ row.manager # Null
        \/ k = "TENANT" /\ row.tenant # Null}

\* C24: once the requests that create accounts have been answered, every
\* User whose role is OWNER, MANAGER or TENANT has exactly one profile, of
\* the kind of its role.
C24_OneProfilePerRole ==
    (\A r \in Slots : req[r].pc \in {"idle", "done"}) =>
        \A id \in DOMAIN users :
            users[id].role \in {"OWNER", "MANAGER", "TENANT"} =>
                ProfileKinds(users[id]) = {users[id].role}

\* caller u may see and change the Owner record id
OwnerRecordAllowed(u, id) ==
    u.role = "SUPER_ADMIN" \/ (u.role = "OWNER" /\ u.owner = id)

\* C27: an Owner record changes only in a step of an updateOwner request of
\* a SUPER_ADMIN or of the OWNER it belongs to, and getOwnerById answers 200
\* to no other caller.
C27_OwnerRecordGuarded ==
    [][\A r \in Slots :
          /\ \A id \in DOMAIN owners :
                (req[r].pc = "uo_update" /\ id \in DOMAIN owners' /\ owners'[id] # owners[id])
                    => OwnerRecordAllowed(req[r].user, id)
          /\ (req'[r] # req[r] /\ req'[r].op = "getOwnerById" /\ req'[r].resp.code = 200)
                => \A id \in req'[r].resp.ids : OwnerRecordAllowed(req'[r].user, id)]_vars

(* ========================== report-job properties ====================== *)
\* the owners of which the finished job left a snapshot
Reported == {analytics[i].ownerId : i \in DOMAIN analytics}

\* C23: when the monthly report job has ended, every owner it read, other
\* than one whose snapshot failed, has a snapshot: one owner's failure does
\* not stop the others.
C23_FailureIsolated ==
    job.pc = "done" =>
        \A i \in DOMAIN job.owners :
            job.owners[i].ownerId \notin job.failed => job.owners[i].ownerId \in Reported

====
